---- MODULE Spec2Model ----
(***************************************************************************)
(* A model of the wedding planner: the pure view computations of the       *)
(* planner and the admin dashboard (progress percentage, phase grouping),  *)
(* the backend schema with its row-level policies and seeding trigger, the *)
(* App session gate, and the planner / admin components' remote calls.     *)
(***************************************************************************)
EXTENDS Integers, Sequences, FiniteSets, TLC

(***************************************************************************)
(* Bounds of the model.                                                    *)
(***************************************************************************)
\* Longest task list whose progress percentage is computed.
MaxTotal == 40
LargeTotal == 201
MaxClients == 3
MaxGuests == 4
\* Longest task list drawn with every mix of phases and completed flags.
MaxLen == 3
\* Rows the clients add, over vendors, guests and tasks (beyond the seeded
\* ones) together.
MaxRows == 1
\* The leading default tasks of a profile that requests address by id.
PickTasks == 1
MaxEvents == 3
MaxRefetch == 2

(***************************************************************************)
(* The six fixed phases, src/unnamed/part_001:179-186.                     *)
(***************************************************************************)
phases ==
  << "12+ Months Before", "8-12 Months Before", "4-8 Months Before",
     "2-4 Months Before", "1-2 Months Before", "1 Week Before" >>

\* A phase string that is none of the six: tasks.phase is free text.
OtherPhase == "Day After"

VARIABLES
  \* -- the pure view computations --
  fn,        \* the computation applied last ("none" before any)
  input,     \* the task list it is applied to
  output,    \* its result
  \* -- the backend: auth, the four tables --
  authUsers, \* auth.users: the identities that signed up
  session,   \* the identity of the client's session (NoUser: none)
  profiles,  \* table profiles
  tasks,     \* table tasks
  vendors,   \* table vendors
  guests,    \* table guests
  nextId,    \* the rows added by clients so far (the next uuid)
  \* -- history of the backend, for the statements about it --
  lastError, \* the error the last request threw ("": none)
  createdBy, \* row id (of a seeded task: its profile's id) -> the identity
             \* whose request created the row
  operatorSet, \* the profiles whose is_admin a backend operator set
  \* -- App (src/unnamed/part_000) --
  app,       \* its state: user, profile, loading
  checkUser, \* where the call of checkUser() stands
  listener,  \* the calls of the onAuthStateChange callback that await
             \* loadProfile
  events,    \* the calls of the onAuthStateChange callback so far
  \* -- WeddingPlanner (src/unnamed/part_001), AdminDashboard --
  planner,   \* the planner's state: tasks, vendors, guests, profile,
             \* loading, error, newVendor, newGuest
  loadData,  \* where the planner's call of loadData() stands
  refetches, \* the reads the change notifications started, not yet back
  issued,    \* the reads of a collection issued so far (loadData's: 1)
  admin,     \* the dashboard's state: clients, loading, error
  loadClientsData, \* where the dashboard's call of loadClientsData() stands
  \* -- history of the planner's reads, for the statements about them --
  lastIssued, \* per collection: the most recently issued read, its outcome
  heldFrom    \* per collection: the read whose result the state holds

pureVars == << fn, input, output >>
appVars == << app, checkUser, listener, events >>
uiVars == << planner, loadData, refetches, issued, admin, loadClientsData,
            lastIssued, heldFrom >>
nonDbVars == << fn, input, output, app, checkUser, listener, events,
                planner, loadData, refetches, issued, admin, loadClientsData,
                lastIssued, heldFrom >>
nonAppVars == << fn, input, output, authUsers, profiles, tasks, vendors,
                 guests, nextId, lastError, createdBy, operatorSet,
                 planner, loadData, refetches, issued, admin,
                 loadClientsData, lastIssued, heldFrom >>
dbVars == << authUsers, session, profiles, tasks, vendors, guests, nextId,
             lastError, createdBy, operatorSet >>
\* No identity is signed in (getCurrentUser() returns null).
NoUser == "none"
\* null, where the code holds a string or null
Null == "null"
\* null, where the code holds a profile or null; a profile held is << row >>
NoProfile == << >>

\* Nothing has been computed by the view functions.
PureIdle == fn = "none" /\ input = << >> /\ output = 0

\* The tables as the migration leaves them: empty, nobody signed in.
DbIdle ==
  /\ authUsers = {}
  /\ session = NoUser
  /\ profiles = {}
  /\ tasks = {}
  /\ vendors = {}
  /\ guests = {}
  /\ nextId = 1
  /\ lastError = ""
  /\ createdBy = << >>
  /\ operatorSet = {}

\* App is not mounted: its state as useState leaves it, nothing running.
AppIdle ==
  /\ app = [user |-> Null, profile |-> NoProfile, loading |-> TRUE]
  /\ checkUser = [pc |-> "done"]
  /\ listener = {}
  /\ events = 0

\* The collections the planner holds and subscribes to.
Collections == { "tasks", "vendors", "guests" }

\* The add forms as useState leaves them (of the fields, those the
\* handlers read: the others are passed through).
BlankVendor == [name |-> "", type |-> ""]
BlankGuest == [first_name |-> "", last_name |-> "", rsvp_status |-> "pending"]

\* The planner's state as useState leaves it (lines 28-59).  A list is
\* held as the set of its rows.
PlannerMounted ==
  [activeTab |-> "checklist", tasks |-> {}, vendors |-> {}, guests |-> {},
   profile |-> NoProfile, loading |-> TRUE, error |-> "",
   newVendor |-> BlankVendor, newGuest |-> BlankGuest]

\* The dashboard's state as useState leaves it.
AdminMounted == [clients |-> << >>, loading |-> TRUE, error |-> ""]

\* loadData() is called: Promise.all awaits the four reads.
LoadDataCalled ==
  [pc |-> "awaiting", pending |-> { "profile" } \cup Collections,
   rejected |-> "", profile |-> NoProfile, tasks |-> {}, vendors |-> {},
   guests |-> {}]

\* loadData() is over; Promise.all rejected with message ("": resolved).
LoadDataSettled(message) ==
  [LoadDataCalled EXCEPT !.pc = "done", !.pending = {},
                         !.rejected = message]

\* loadClientsData() is called: getAllProfiles() is awaited.
LoadClientsDataCalled ==
  [pc |-> "getAllProfiles", rejected |-> "", profiles |-> << >>,
   pending |-> {}, progress |-> << >>]

\* loadClientsData() is over.
LoadClientsDataSettled(message) ==
  [LoadClientsDataCalled EXCEPT !.pc = "done", !.rejected = message]

\* The component is not mounted: no call of loadData / loadClientsData.
LoadDataIdle == [LoadDataCalled EXCEPT !.pc = "idle", !.pending = {}]
LoadClientsDataIdle == [LoadClientsDataCalled EXCEPT !.pc = "idle"]

\* Neither the planner nor the dashboard is mounted.
UiIdle ==
  /\ planner = PlannerMounted
  /\ loadData = LoadDataIdle
  /\ refetches = {}
  /\ issued = 1
  /\ admin = AdminMounted
  /\ loadClientsData = LoadClientsDataIdle
  /\ lastIssued = [c \in Collections |->
                     [n |-> 1, status |-> "pending", data |-> {}]]
  /\ heldFrom = [c \in Collections |-> 0]

vars == << fn, input, output, authUsers, session, profiles, tasks, vendors,
           guests, nextId, lastError, createdBy, operatorSet,
           app, checkUser, listener, events,
           planner, loadData, refetches, issued, admin, loadClientsData,
           lastIssued, heldFrom >>

(***************************************************************************)
(* IEEE-754 binary64 arithmetic, as far as                                 *)
(*   Math.round((completed / total) * 100)                                 *)
(* needs it.  A non-negative double is [e, m]: its value is                *)
(* M * 2^-(52+e), with M written in five limbs of base 2^13,               *)
(* M = m[1]*2^52 + m[2]*2^39 + m[3]*2^26 + m[4]*2^13 + m[5].               *)
(***************************************************************************)
LimbBase == 2^13

\* Carries of the four low limbs moved up, so that each is below LimbBase.
Normalize(m) ==
  LET v5 == m[5]
      v4 == m[4] + (v5 \div LimbBase)
      v3 == m[3] + (v4 \div LimbBase)
      v2 == m[2] + (v3 \div LimbBase)
      v1 == m[1] + (v2 \div LimbBase)
  IN  << v1, v2 % LimbBase, v3 % LimbBase, v4 % LimbBase, v5 % LimbBase >>

\* The exponent of c / n: the least e with c * 2^e >= n (c >= 1).
DivExp(c, n) ==
  CHOOSE e \in 0..30 : c * 2^e >= n /\ (e = 0 \/ c * 2^(e-1) < n)

\* Thirteen more quotient bits of the long division by n.
DivLimb(r, n) == [q |-> (r * LimbBase) \div n, r |-> (r * LimbBase) % n]

\* completed / total: the quotient to 53 significant bits, rounded to
\* nearest, ties to even.
JsDivide(c, n) ==
  IF c = 0 THEN [e |-> 0, m |-> << 0, 0, 0, 0, 0 >>]
  ELSE
    LET e  == DivExp(c, n)
        s1 == DivLimb(c * 2^e - n, n)
        s2 == DivLimb(s1.r, n)
        s3 == DivLimb(s2.r, n)
        s4 == DivLimb(s3.r, n)
        up == 2 * s4.r > n \/ (2 * s4.r = n /\ s4.q % 2 = 1)
    IN  [e |-> e,
         m |-> Normalize(<< 1, s1.q, s2.q, s3.q,
                            s4.q + (IF up THEN 1 ELSE 0) >>)]

\* The number of low bits a product with top limb t loses to fit 53 bits.
DropBits(t) ==
  CHOOSE d \in 0..12 : t < 2^(d+1) /\ (d = 0 \/ t >= 2^d)

\* x * 100: the exact product rounded to 53 significant bits, ties to even.
JsTimes100(x) ==
  LET p    == Normalize([i \in 1..5 |-> x.m[i] * 100])
      d    == DropBits(p[1])
      rem  == p[5] % 2^d
      kept == p[5] \div 2^d
      up   == 2 * rem > 2^d \/ (d > 0 /\ 2 * rem = 2^d /\ kept % 2 = 1)
  IN  [e |-> x.e,
       m |-> Normalize([p EXCEPT ![5] = @ - rem + (IF up THEN 2^d ELSE 0)])]

\* Math.round: the nearest integer, a tie going up, i.e. floor(x + 1/2).
MathRound(x) ==
  IF x.e = 0
  THEN x.m[1] + (IF x.m[2] >= LimbBase \div 2 THEN 1 ELSE 0)
  ELSE IF x.e > 0
  THEN (x.m[1] + 2^(x.e - 1)) \div 2^(x.e)
  ELSE
    LET j  == 0 - x.e
        t5 == (x.m[5] * 2^j) \div LimbBase
        t4 == (x.m[4] * 2^j + t5) \div LimbBase
        t3 == (x.m[3] * 2^j + t4) \div LimbBase
        scaled == x.m[1] * 2^j * LimbBase + x.m[2] * 2^j + t3
    IN  (scaled + LimbBase \div 2) \div LimbBase

\* The binary exponent of s / n when s >= n: the j with n * 2^j <= s and
\* s < n * 2^(j+1).
QuotExp(s, n) ==
  CHOOSE j \in 0..12 : n * 2^j <= s /\ s < n * 2^(j+1)

\* s / n for any s >= 0: below 1 as JsDivide gives it; from 1 on, the
\* 53 bits of s / (n * 2^j), which lies in [1, 2), with the exponent of
\* 2^j (a scaling by a power of two is exact).
JsQuotient(s, n) ==
  IF s < n THEN JsDivide(s, n)
  ELSE LET j == QuotExp(s, n)
       IN  [e |-> 0 - j, m |-> JsDivide(s, n * 2^j).m]

\* total > 0 ? Math.round((completed / total) * 100) : 0
Percentage(completed, total) ==
  IF total > 0 THEN MathRound(JsTimes100(JsDivide(completed, total))) ELSE 0

(***************************************************************************)
(* The planner's and the admin summary's computations over a task list.    *)
(***************************************************************************)
IsCompleted(task) == task.completed

\* WeddingPlanner.updateProgress
updateProgress(list) ==
  LET completed == Len(SelectSeq(list, IsCompleted))
      total     == Len(list)
  IN  Percentage(completed, total)

\* dbFunctions.getProfileProgress, on the rows its select returned
getProfileProgress(data) ==
  LET total     == Len(data)
      completed == Len(SelectSeq(data, IsCompleted))
  IN  [total |-> total, completed |-> completed,
       percentage |-> Percentage(completed, total)]

\* tasks.filter(task => task.phase === phase)
TasksOfPhase(list, phase) ==
  LET InPhase(task) == task.phase = phase
  IN  SelectSeq(list, InPhase)

\* A grouping that leaves out the phases no task is in.
getTasksByPhase_SkipEmpty(list) ==
  LET NonEmpty(g) == g.tasks # << >>
  IN  SelectSeq([i \in 1..Len(phases) |->
                   [phase |-> phases[i],
                    tasks |-> TasksOfPhase(list, phases[i])]], NonEmpty)

\* WeddingPlanner.getTasksByPhase
getTasksByPhase(list) ==
  [i \in 1..Len(phases) |->
     [phase |-> phases[i], tasks |-> TasksOfPhase(list, phases[i])]]

(***************************************************************************)
(* The dashboard's and the guest tab's computations.                       *)
(***************************************************************************)
RECURSIVE SumOfPercentages(_)
\* clients.reduce((sum, c) => sum + c.progress.percentage, 0): the sum of
\* integers this small is exact.
SumOfPercentages(list) ==
  IF list = << >> THEN 0
  ELSE SumOfPercentages(SubSeq(list, 1, Len(list) - 1))
         + list[Len(list)].progress.percentage

IsActive(c) == c.progress.percentage > 0
IsComplete(c) == c.progress.percentage = 100

\* A summary whose average is cut off, not rounded.
getOverallStats_Truncates(list) ==
  [totalClients |-> Len(list),
   activeClients |-> Len(SelectSeq(list, IsActive)),
   averageProgress |->
     IF Len(list) > 0 THEN SumOfPercentages(list) \div Len(list) ELSE 0,
   completedClients |-> Len(SelectSeq(list, IsComplete))]

\* AdminDashboard.getOverallStats, on the clients the dashboard holds
getOverallStats(list) ==
  [totalClients |-> Len(list),
   activeClients |-> Len(SelectSeq(list, IsActive)),
   averageProgress |->
     IF Len(list) > 0
     THEN MathRound(JsQuotient(SumOfPercentages(list), Len(list)))
     ELSE 0,
   completedClients |-> Len(SelectSeq(list, IsComplete))]

\* A classification whose yellow tier starts one point late.
getProgressColor_YellowFrom51(percentage) ==
  IF percentage >= 80 THEN "bg-green-500"
  ELSE IF percentage >= 51 THEN "bg-yellow-500"
  ELSE IF percentage >= 25 THEN "bg-orange-500"
  ELSE "bg-red-500"

\* AdminDashboard.getProgressColor
getProgressColor(percentage) ==
  IF percentage >= 80 THEN "bg-green-500"
  ELSE IF percentage >= 50 THEN "bg-yellow-500"
  ELSE IF percentage >= 25 THEN "bg-orange-500"
  ELSE "bg-red-500"

\* guests.filter(g => g.rsvp_status === status).length
RsvpCount(list, status) ==
  LET HasStatus(g) == g.rsvp_status = status
  IN  Len(SelectSeq(list, HasStatus))

\* Counts in which a guest who has not answered is left out.
GuestStatistics_PendingLeftOut(list) ==
  [total |-> Len(list),
   attending |-> RsvpCount(list, "attending"),
   declined |-> RsvpCount(list, "declined"),
   pending |-> 0]

\* The four counts of the guest tab (Guest Statistics, lines 484-508)
GuestStatistics(list) ==
  [total |-> Len(list),
   attending |-> RsvpCount(list, "attending"),
   declined |-> RsvpCount(list, "declined"),
   pending |-> RsvpCount(list, "pending")]

(***************************************************************************)
(* The task lists the computations are applied to.                         *)
(***************************************************************************)
PhaseChoices == { phases[1], phases[2], phases[6], OtherPhase }

\* n tasks, the first c of them completed, the phases taken in turn.
CountedList(n, c) ==
  [i \in 1..n |->
     [id |-> i,
      phase |-> IF i % 7 = 0 THEN OtherPhase ELSE phases[i % 7],
      completed |-> i <= c]]

\* Every list of up to MaxLen tasks over PhaseChoices and both flags.
MixedLists ==
  UNION { { [i \in 1..n |-> [id |-> i, phase |-> ph[i], completed |-> cp[i]]] :
              ph \in [1..n -> PhaseChoices], cp \in [1..n -> BOOLEAN] } :
          n \in 0..MaxLen }

\* The lists of a client who added tasks of their own to the 60 seeded
\* ones (addTask sets no limit): LargeTotal tasks, none, one, all but one
\* or all of them completed.
LargeLists ==
  { CountedList(LargeTotal, c) : c \in { 0, 1, LargeTotal - 1, LargeTotal } }

TaskLists ==
  UNION { { CountedList(n, c) : c \in 0..n } : n \in 0..MaxTotal }
    \cup MixedLists \cup LargeLists

\* The clients of the dashboard, each with the percentage
\* getProfileProgress gave: every single client, and every list of up to
\* MaxClients clients over PercentChoices.
PercentChoices == { 0, 24, 25, 49, 50, 79, 80, 100 }
ClientOf(p) == [progress |-> [percentage |-> p]]
ClientLists ==
  { << ClientOf(p) >> : p \in 0..100 }
    \cup UNION { { [i \in 1..n |-> ClientOf(ps[i])] :
                     ps \in [1..n -> PercentChoices] } : n \in 0..MaxClients }

\* The guests of the planner: rsvp_status is a text column with a default
\* and no constraint, so a row may hold any text or null.
RsvpChoices == { "attending", "declined", "pending", "Attending", Null }
GuestLists ==
  UNION { { [i \in 1..n |-> [rsvp_status |-> st[i]]] :
              st \in [1..n -> RsvpChoices] } : n \in 0..MaxGuests }

PureInit ==
  /\ fn = "none"
  /\ input \in TaskLists \cup ClientLists \cup GuestLists
  /\ output = 0
  /\ DbIdle
  /\ AppIdle
  /\ UiIdle

UpdateProgress ==
  /\ fn = "none"
  /\ input \in TaskLists
  /\ fn' = "updateProgress"
  /\ output' = updateProgress(input)
  /\ UNCHANGED input
  /\ UNCHANGED << dbVars, appVars, uiVars >>

GetProfileProgress ==
  /\ fn = "none"
  /\ input \in TaskLists
  /\ fn' = "getProfileProgress"
  /\ output' = getProfileProgress(input)
  /\ UNCHANGED input
  /\ UNCHANGED << dbVars, appVars, uiVars >>

GetTasksByPhase ==
  /\ fn = "none"
  /\ input \in TaskLists
  /\ fn' = "getTasksByPhase"
  /\ output' = getTasksByPhase(input)
  /\ UNCHANGED input
  /\ UNCHANGED << dbVars, appVars, uiVars >>

\* const stats = getOverallStats() of the dashboard's render (line 103)
GetOverallStats ==
  /\ fn = "none"
  /\ input \in ClientLists
  /\ fn' = "getOverallStats"
  /\ output' = getOverallStats(input)
  /\ UNCHANGED input
  /\ UNCHANGED << dbVars, appVars, uiVars >>

\* The render's getProgressColor(progress.percentage) of every client row
\* (line 241)
GetProgressColor ==
  /\ fn = "none"
  /\ input \in ClientLists
  /\ fn' = "getProgressColor"
  /\ output' = [i \in 1..Len(input) |->
                  getProgressColor(input[i].progress.percentage)]
  /\ UNCHANGED input
  /\ UNCHANGED << dbVars, appVars, uiVars >>

\* The render of the guest tab's four counts
GuestStatisticsRendered ==
  /\ fn = "none"
  /\ input \in GuestLists
  /\ fn' = "GuestStatistics"
  /\ output' = GuestStatistics(input)
  /\ UNCHANGED input
  /\ UNCHANGED << dbVars, appVars, uiVars >>


(***************************************************************************)
(* The backend: src/unnamed/part_003 (schema, policies, trigger) and the   *)
(* requests of src/unnamed/part_002 (authFunctions, dbFunctions).          *)
(***************************************************************************)
Users == { "u1", "u2" }
Operator == "operator"

RlsViolation == "new row violates row-level security policy"
FkViolation == "violates foreign key constraint"
PkViolation == "duplicate key value violates unique constraint"
NotAuthenticated == "Not authenticated"
AlreadyRegistered == "User already registered"

\* The 60 default tasks of create_default_tasks, << task_name, phase >>.
DefaultTasks == <<
  \* 12+ Months Before, src/unnamed/part_003:194-204
  << "Set your wedding date", "12+ Months Before" >>,
  << "Determine your budget", "12+ Months Before" >>,
  << "Create guest list (rough estimate)", "12+ Months Before" >>,
  << "Research and book venue", "12+ Months Before" >>,
  << "Hire wedding planner (optional)", "12+ Months Before" >>,
  << "Start shopping for wedding dress", "12+ Months Before" >>,
  << "Research photographers", "12+ Months Before" >>,
  << "Book photographer", "12+ Months Before" >>,
  << "Research caterers", "12+ Months Before" >>,
  << "Book caterer", "12+ Months Before" >>,
  \* 8-12 Months Before, src/unnamed/part_003:207-217
  << "Send save the dates", "8-12 Months Before" >>,
  << "Register for gifts", "8-12 Months Before" >>,
  << "Book officiant", "8-12 Months Before" >>,
  << "Book florist", "8-12 Months Before" >>,
  << "Book band/DJ", "8-12 Months Before" >>,
  << "Order wedding dress", "8-12 Months Before" >>,
  << "Book transportation", "8-12 Months Before" >>,
  << "Plan honeymoon", "8-12 Months Before" >>,
  << "Book honeymoon", "8-12 Months Before" >>,
  << "Engagement party planning", "8-12 Months Before" >>,
  \* 4-8 Months Before, src/unnamed/part_003:220-230
  << "Order invitations", "4-8 Months Before" >>,
  << "Plan bachelor/bachelorette parties", "4-8 Months Before" >>,
  << "Book hair and makeup artists", "4-8 Months Before" >>,
  << "Choose wedding cake", "4-8 Months Before" >>,
  << "Plan rehearsal dinner", "4-8 Months Before" >>,
  << "Shop for wedding rings", "4-8 Months Before" >>,
  << "Plan ceremony details", "4-8 Months Before" >>,
  << "Choose wedding party attire", "4-8 Months Before" >>,
  << "Book accommodations for guests", "4-8 Months Before" >>,
  << "Apply for marriage license", "4-8 Months Before" >>,
  \* 2-4 Months Before, src/unnamed/part_003:233-243
  << "Send wedding invitations", "2-4 Months Before" >>,
  << "Finalize guest list", "2-4 Months Before" >>,
  << "Order wedding favors", "2-4 Months Before" >>,
  << "Plan seating arrangements", "2-4 Months Before" >>,
  << "Write wedding vows", "2-4 Months Before" >>,
  << "Schedule dress fittings", "2-4 Months Before" >>,
  << "Confirm all vendors", "2-4 Months Before" >>,
  << "Create wedding day timeline", "2-4 Months Before" >>,
  << "Plan wedding day emergency kit", "2-4 Months Before" >>,
  << "Confirm honeymoon details", "2-4 Months Before" >>,
  \* 1-2 Months Before, src/unnamed/part_003:246-256
  << "Final dress fitting", "1-2 Months Before" >>,
  << "Confirm final headcount with caterer", "1-2 Months Before" >>,
  << "Finalize seating chart", "1-2 Months Before" >>,
  << "Confirm transportation details", "1-2 Months Before" >>,
  << "Break in wedding shoes", "1-2 Months Before" >>,
  << "Prepare wedding day emergency kit", "1-2 Months Before" >>,
  << "Confirm ceremony and reception details", "1-2 Months Before" >>,
  << "Get marriage license", "1-2 Months Before" >>,
  << "Prepare vendor payments", "1-2 Months Before" >>,
  << "Delegate wedding day responsibilities", "1-2 Months Before" >>,
  \* 1 Week Before, src/unnamed/part_003:259-269
  << "Confirm all vendor arrival times", "1 Week Before" >>,
  << "Pack for honeymoon", "1 Week Before" >>,
  << "Prepare wedding day timeline for vendors", "1 Week Before" >>,
  << "Rehearsal and rehearsal dinner", "1 Week Before" >>,
  << "Get manicure/pedicure", "1 Week Before" >>,
  << "Prepare vendor tip envelopes", "1 Week Before" >>,
  << "Confirm weather backup plans", "1 Week Before" >>,
  << "Rest and relax", "1 Week Before" >>,
  << "Prepare emergency contact list", "1 Week Before" >>,
  << "Final venue walkthrough", "1 Week Before" >>
>>

\* A record with the fields of patch set to patch's values.
Apply(row, patch) ==
  [f \in DOMAIN row |-> IF f \in DOMAIN patch THEN patch[f] ELSE row[f]]

\* TO authenticated
Authenticated(uid) == uid # NoUser

\* USING (auth.uid() = id)
UsersCanReadOwnProfile(uid, row) == uid = row.id
\* USING (auth.uid() = id); no WITH CHECK, so it is the check of the new
\* row as well
UsersCanUpdateOwnProfile(uid, row) == uid = row.id
\* WITH CHECK (auth.uid() = id)
UsersCanInsertOwnProfile(uid, row) == uid = row.id
\* USING (EXISTS (SELECT 1 FROM profiles
\*                WHERE id = auth.uid() AND is_admin = true))
AdminsCanReadAll(uid) ==
  \E p \in profiles : p.id = uid /\ p.is_admin = TRUE
\* FOR ALL USING (user_id = auth.uid()); no WITH CHECK, so it is the check
\* of inserted and updated rows as well
UsersCanManageOwn(uid, row) == row.user_id = uid

\* The rows of profiles a SELECT of uid sees.
ProfilesSelect(uid) ==
  { p \in profiles :
      Authenticated(uid)
        /\ (UsersCanReadOwnProfile(uid, p) \/ AdminsCanReadAll(uid)) }

\* The rows of tasks, vendors or guests a SELECT of uid sees.
OwnedSelect(uid, rows) ==
  { r \in rows :
      Authenticated(uid)
        /\ (UsersCanManageOwn(uid, r) \/ AdminsCanReadAll(uid)) }

\* INSERT of a row into tasks, vendors or guests by uid.
OwnedInsert(uid, rows, row) ==
  IF ~(Authenticated(uid) /\ UsersCanManageOwn(uid, row))
  THEN [error |-> RlsViolation, rows |-> rows]
  ELSE IF ~(\E p \in profiles : p.id = row.user_id)
  THEN [error |-> FkViolation, rows |-> rows]
  ELSE [error |-> "", rows |-> rows \cup { row }]

\* An UPDATE whose new rows no policy checks (WITH CHECK (true)).
OwnedUpdate_NoCheck(uid, rows, id, patch) ==
  LET targets == { r \in OwnedSelect(uid, rows) :
                     r.id = id /\ Authenticated(uid)
                       /\ UsersCanManageOwn(uid, r) }
      updated == { Apply(r, patch) : r \in targets }
  IN  IF \E r \in updated : ~(\E p \in profiles : p.id = r.user_id)
      THEN [error |-> FkViolation, rows |-> rows]
      ELSE [error |-> "", rows |-> (rows \ targets) \cup updated]

\* UPDATE ... SET patch WHERE id = id, on tasks, vendors or guests by uid.
OwnedUpdate(uid, rows, id, patch) ==
  LET targets == { r \in OwnedSelect(uid, rows) :
                     r.id = id /\ Authenticated(uid)
                       /\ UsersCanManageOwn(uid, r) }
      updated == { Apply(r, patch) : r \in targets }
  IN  IF \E r \in updated : ~UsersCanManageOwn(uid, r)
      THEN [error |-> RlsViolation, rows |-> rows]
      ELSE IF \E r \in updated : ~(\E p \in profiles : p.id = r.user_id)
      THEN [error |-> FkViolation, rows |-> rows]
      ELSE [error |-> "", rows |-> (rows \ targets) \cup updated]

\* A DELETE under admin policies written FOR ALL instead of FOR SELECT.
OwnedDelete_AdminAll(uid, rows, id) ==
  [error |-> "", rows |-> rows \ { r \in OwnedSelect(uid, rows) : r.id = id }]

\* DELETE ... WHERE id = id, on tasks, vendors or guests by uid.
OwnedDelete(uid, rows, id) ==
  LET targets == { r \in OwnedSelect(uid, rows) :
                     r.id = id /\ Authenticated(uid)
                       /\ UsersCanManageOwn(uid, r) }
  IN  [error |-> "", rows |-> rows \ targets]

\* now() of a statement on a table, as far as the code reads created_at
\* (the order of a table's rows): later than every row of the table.
Now(rows) ==
  LET stamps == { r.created_at : r \in rows }
  IN  IF rows = {} THEN 1
      ELSE 1 + (CHOOSE m \in stamps : \A t \in stamps : t <= m)

\* gen_random_uuid() of a row a client adds; a seeded task's id is
\* << the profile's id, its place among the default tasks >>.
NewId == << "row", nextId >>

\* A seeding that stops one row short.
create_default_tasks_OneShort(new) ==
  { [id |-> << new.id, k >>, user_id |-> new.id,
     task_name |-> DefaultTasks[k][1], phase |-> DefaultTasks[k][2],
     completed |-> FALSE, created_at |-> Now(tasks)] :
      k \in 1..(Len(DefaultTasks) - 1) }

\* The rows create_default_tasks inserts for the new profile row when
\* now() is stamp.
SeededTasks(new, stamp) ==
  { [id |-> << new.id, k >>, user_id |-> new.id,
     task_name |-> DefaultTasks[k][1], phase |-> DefaultTasks[k][2],
     completed |-> FALSE, created_at |-> stamp] :
      k \in 1..Len(DefaultTasks) }

\* The rows create_default_tasks inserts for the new profile row.
create_default_tasks(new) == SeededTasks(new, Now(tasks))

\* The profile row signUp inserts.
ProfileRow(u, weddingDate, stamp) ==
  [id |-> u, couple_names |-> "A & B",
   wedding_date |-> IF weddingDate = "" THEN Null ELSE weddingDate,
   email |-> u, is_admin |-> FALSE, created_at |-> stamp]

\* An INSERT into profiles whose trigger's rows stay when the primary key
\* refuses the profile row.
ProfilesInsert_SeedsRefused(uid, row, registered) ==
  LET seeded == create_default_tasks(row)
  IN  IF ~(Authenticated(uid) /\ UsersCanInsertOwnProfile(uid, row))
      THEN [error |-> RlsViolation, profiles |-> profiles, tasks |-> tasks]
      ELSE IF \E p \in profiles : p.id = row.id
      THEN [error |-> PkViolation, profiles |-> profiles,
            tasks |-> tasks \cup seeded]
      ELSE IF row.id \notin registered
      THEN [error |-> FkViolation, profiles |-> profiles, tasks |-> tasks]
      ELSE [error |-> "", profiles |-> profiles \cup { row },
            tasks |-> tasks \cup seeded]

\* INSERT of a row into profiles by uid, with the AFTER INSERT trigger:
\* the trigger's inserts run as uid too, under the policies of tasks.
ProfilesInsert(uid, row, registered) ==
  LET seeded == create_default_tasks(row)
  IN  IF ~(Authenticated(uid) /\ UsersCanInsertOwnProfile(uid, row))
      THEN [error |-> RlsViolation, profiles |-> profiles, tasks |-> tasks]
      ELSE IF \E p \in profiles : p.id = row.id
      THEN [error |-> PkViolation, profiles |-> profiles, tasks |-> tasks]
      ELSE IF row.id \notin registered
      THEN [error |-> FkViolation, profiles |-> profiles, tasks |-> tasks]
      ELSE IF \E t \in seeded : ~UsersCanManageOwn(uid, t)
      THEN [error |-> RlsViolation, profiles |-> profiles, tasks |-> tasks]
      ELSE [error |-> "", profiles |-> profiles \cup { row },
            tasks |-> tasks \cup seeded]

\* UPDATE profiles SET patch WHERE id = id, by uid.
ProfilesUpdate(uid, id, patch) ==
  LET targets == { p \in ProfilesSelect(uid) :
                     p.id = id /\ UsersCanUpdateOwnProfile(uid, p) }
      updated == { Apply(p, patch) : p \in targets }
  IN  IF \E p \in updated : ~UsersCanUpdateOwnProfile(uid, p)
      THEN [error |-> RlsViolation, profiles |-> profiles]
      ELSE IF \E p \in updated : \E q \in profiles \ targets : q.id = p.id
      THEN [error |-> PkViolation, profiles |-> profiles]
      ELSE [error |-> "", profiles |-> (profiles \ targets) \cup updated]

\* DELETE FROM profiles WHERE id = id, by uid: no policy is FOR DELETE.
ProfilesDelete(uid, id) == [error |-> "", profiles |-> profiles]

\* The key of a row in createdBy: the 60 seeded tasks of a profile are
\* created by one request and share the key << profile id, 0 >>.
CreationKey(id) == IF id[1] = "row" THEN id ELSE << id[1], 0 >>

\* The identity whose request created the row.
CreatorOf(row) == createdBy[CreationKey(row.id)]

\* createdBy after a request of actor that left the rows (of tasks,
\* vendors and guests together) as all.
Created(actor, all) ==
  LET keys == { CreationKey(r.id) : r \in all }
  IN  [k \in keys |-> IF k \in DOMAIN createdBy THEN createdBy[k] ELSE actor]

(***************************************************************************)
(* The requests.  Each is one statement (one transaction) of the backend   *)
(* made with the client's session; inputs come from small sets.            *)
(***************************************************************************)
WeddingDates == { "", "2027-06-12" }
CustomTaskName == "Book string quartet"
DefaultTaskNames == { DefaultTasks[k][1] : k \in 1..Len(DefaultTasks) }
PickedTaskNames ==
  { DefaultTasks[k][1] : k \in 1..PickTasks } \cup { CustomTaskName }
PickedTaskIds ==
  { t.id : t \in { r \in tasks : r.task_name \in PickedTaskNames } }
AddedTaskIds ==
  { t.id : t \in { r \in tasks : r.task_name \notin DefaultTaskNames } }

\* The payloads of addVendor / addGuest: the form's fields, and (the type
\* Omit<..., 'user_id'> is erased at run time) possibly a user_id.
VendorPayloads ==
  { [name |-> "Rose & Co", type |-> "Florist"] }
    \cup { [name |-> "Rose & Co", type |-> "Florist", user_id |-> v] :
             v \in Users }
GuestPayloads ==
  { [first_name |-> "Ada", last_name |-> "Lee", rsvp_status |-> "pending"] }
    \cup { [first_name |-> "Ada", last_name |-> "Lee",
            rsvp_status |-> "pending", user_id |-> v] : v \in Users }
\* The payloads of updateVendor / updateGuest: Partial<Vendor>, Partial<Guest>.
VendorPatches ==
  { [name |-> "Rose & Sons"] } \cup { [user_id |-> v] : v \in Users }
GuestPatches ==
  { [rsvp_status |-> "attending"] } \cup { [user_id |-> v] : v \in Users }

DbInit ==
  /\ PureIdle
  /\ DbIdle
  /\ AppIdle
  /\ UiIdle

\* authFunctions.signUp: auth.signUp, then the insert of the profile row
\* with the session auth.signUp left (the new identity's when the project
\* signs new users in at once, the previous one when it waits for the
\* email to be confirmed).
SignUp(u, weddingDate, withSession) ==
  IF u \in authUsers
  THEN /\ lastError' = AlreadyRegistered
       /\ UNCHANGED << authUsers, session, profiles, tasks, vendors, guests,
                       nextId, createdBy, operatorSet >>
       /\ UNCHANGED nonDbVars
  ELSE
    LET uid == IF withSession THEN u ELSE session
        row == ProfileRow(u, weddingDate, Now(profiles))
        res == ProfilesInsert(uid, row, authUsers \cup { u })
        ok  == res.error = ""
    IN  /\ authUsers' = authUsers \cup { u }
        /\ session' = uid
        /\ profiles' = res.profiles
        /\ tasks' = res.tasks
        /\ createdBy' = Created(uid, res.tasks \cup vendors \cup guests)
        /\ lastError' = res.error
        /\ UNCHANGED << vendors, guests, nextId, operatorSet >>
        /\ UNCHANGED nonDbVars

\* authFunctions.signIn
SignIn(u) ==
  /\ u \in authUsers
  /\ session # u
  /\ session' = u
  /\ lastError' = ""
  /\ UNCHANGED << authUsers, profiles, tasks, vendors, guests, nextId,
                  createdBy, operatorSet >>
  /\ UNCHANGED nonDbVars

\* authFunctions.signOut
SignOut ==
  /\ session # NoUser
  /\ session' = NoUser
  /\ lastError' = ""
  /\ UNCHANGED << authUsers, profiles, tasks, vendors, guests, nextId,
                  createdBy, operatorSet >>
  /\ UNCHANGED nonDbVars

\* A statement left tasks as res.rows (the request's error: res.error).
TasksStored(res) ==
  /\ tasks' = res.rows
  /\ nextId' = IF NewId \in { r.id : r \in res.rows } THEN nextId + 1
               ELSE nextId
  /\ createdBy' = Created(session, res.rows \cup vendors \cup guests)
  /\ lastError' = res.error
  /\ UNCHANGED << authUsers, profiles, vendors, guests, operatorSet >>

TasksWritten(res) ==
  /\ TasksStored(res)
  /\ UNCHANGED session
  /\ UNCHANGED nonDbVars

VendorsStored(res) ==
  /\ vendors' = res.rows
  /\ nextId' = IF NewId \in { r.id : r \in res.rows } THEN nextId + 1
               ELSE nextId
  /\ createdBy' = Created(session, res.rows \cup tasks \cup guests)
  /\ lastError' = res.error
  /\ UNCHANGED << authUsers, profiles, tasks, guests, operatorSet >>

VendorsWritten(res) ==
  /\ VendorsStored(res)
  /\ UNCHANGED session
  /\ UNCHANGED nonDbVars

GuestsStored(res) ==
  /\ guests' = res.rows
  /\ nextId' = IF NewId \in { r.id : r \in res.rows } THEN nextId + 1
               ELSE nextId
  /\ createdBy' = Created(session, res.rows \cup tasks \cup vendors)
  /\ lastError' = res.error
  /\ UNCHANGED << authUsers, profiles, tasks, vendors, operatorSet >>

GuestsWritten(res) ==
  /\ GuestsStored(res)
  /\ UNCHANGED session
  /\ UNCHANGED nonDbVars

\* A request that threw before it reached the backend.
Thrown(error) ==
  /\ lastError' = error
  /\ UNCHANGED << authUsers, session, profiles, tasks, vendors, guests, nextId, createdBy, operatorSet >>
  /\ UNCHANGED nonDbVars

\* dbFunctions.addTask
AddTask(taskName, phase) ==
  /\ nextId <= MaxRows
  /\ IF session = NoUser
     THEN Thrown(NotAuthenticated)
     ELSE TasksWritten(OwnedInsert(session, tasks,
              [id |-> NewId, user_id |-> session, task_name |-> taskName,
               phase |-> phase, completed |-> FALSE,
               created_at |-> Now(tasks)]))

\* supabase.from('tasks').insert(row) with a user_id of the client's choice
ClientInsertTask(owner, phase) ==
  /\ nextId <= MaxRows
  /\ TasksWritten(OwnedInsert(session, tasks,
         [id |-> NewId, user_id |-> owner, task_name |-> CustomTaskName,
          phase |-> phase, completed |-> FALSE,
               created_at |-> Now(tasks)]))

\* dbFunctions.updateTask
UpdateTask(id, completed) ==
  TasksWritten(OwnedUpdate(session, tasks, id, [completed |-> completed]))

\* supabase.from('tasks').update({ user_id }).eq('id', id)
ClientUpdateTask(id, owner) ==
  TasksWritten(OwnedUpdate(session, tasks, id, [user_id |-> owner]))

\* dbFunctions.deleteTask
DeleteTask(id) ==
  TasksWritten(OwnedDelete(session, tasks, id))

\* dbFunctions.addVendor: insert({ user_id: user.id, ...vendor })
addVendor(vendor) ==
  IF session = NoUser
  THEN [error |-> NotAuthenticated, rows |-> vendors]
  ELSE OwnedInsert(session, vendors,
           Apply([id |-> NewId, user_id |-> session, name |-> "",
                  type |-> "", created_at |-> Now(vendors)], vendor))

AddVendor(vendor) ==
  /\ nextId <= MaxRows
  /\ VendorsWritten(addVendor(vendor))

\* dbFunctions.updateVendor
UpdateVendor(id, vendor) ==
  VendorsWritten(OwnedUpdate(session, vendors, id, vendor))

\* dbFunctions.deleteVendor
DeleteVendor(id) ==
  VendorsWritten(OwnedDelete(session, vendors, id))

\* dbFunctions.addGuest: insert({ user_id: user.id, ...guest })
addGuest(guest) ==
  IF session = NoUser
  THEN [error |-> NotAuthenticated, rows |-> guests]
  ELSE OwnedInsert(session, guests,
           Apply([id |-> NewId, user_id |-> session, first_name |-> "",
                  last_name |-> "", rsvp_status |-> "pending",
                  created_at |-> Now(guests)], guest))

AddGuest(guest) ==
  /\ nextId <= MaxRows
  /\ GuestsWritten(addGuest(guest))

\* dbFunctions.updateGuest
UpdateGuest(id, guest) ==
  GuestsWritten(OwnedUpdate(session, guests, id, guest))

\* dbFunctions.deleteGuest
DeleteGuest(id) ==
  GuestsWritten(OwnedDelete(session, guests, id))

\* supabase.from('profiles').insert(row), the row of the client's choice
ClientInsertProfile(id, isAdmin) ==
  LET row == [id |-> id, couple_names |-> "A & B", wedding_date |-> Null,
              email |-> id, is_admin |-> isAdmin,
              created_at |-> Now(profiles)]
      res == ProfilesInsert(session, row, authUsers)
      ok  == res.error = ""
  IN  /\ profiles' = res.profiles
      /\ tasks' = res.tasks
      /\ createdBy' = Created(session, res.tasks \cup vendors \cup guests)
      /\ lastError' = res.error
      /\ UNCHANGED << authUsers, session, vendors, guests, nextId,
                      operatorSet >>
      /\ UNCHANGED nonDbVars

\* supabase.from('profiles').update(patch).eq('id', id)
ClientUpdateProfile(id, patch) ==
  LET res == ProfilesUpdate(session, id, patch)
  IN  /\ profiles' = res.profiles
      /\ lastError' = res.error
      /\ UNCHANGED << authUsers, session, tasks, vendors, guests, nextId, createdBy, operatorSet >>
      /\ UNCHANGED nonDbVars

\* supabase.from('profiles').delete().eq('id', id)
ClientDeleteProfile(id) ==
  LET res == ProfilesDelete(session, id)
  IN  /\ profiles' = res.profiles
      /\ lastError' = res.error
      /\ UNCHANGED << authUsers, session, tasks, vendors, guests, nextId, createdBy, operatorSet >>
      /\ UNCHANGED nonDbVars

ProfilePatches ==
  { [is_admin |-> TRUE] } \cup { [id |-> v] : v \in Users }

\* A backend operator (service role: the policies do not apply) sets the
\* is_admin flag of a profile.
OperatorSetAdmin(u, flag) ==
  /\ \E p \in profiles : p.id = u /\ p.is_admin # flag
  /\ profiles' = { IF p.id = u THEN [p EXCEPT !.is_admin = flag] ELSE p :
                     p \in profiles }
  /\ operatorSet' = operatorSet \cup { u }
  /\ lastError' = ""
  /\ UNCHANGED << authUsers, session, tasks, vendors, guests, nextId,
                  createdBy >>
  /\ UNCHANGED nonDbVars

DbNext ==
  \/ \E u \in Users, b \in BOOLEAN : SignUp(u, "", b)
  \/ \E u \in Users : SignIn(u)
  \/ SignOut
  \/ AddTask(CustomTaskName, OtherPhase)
  \/ \E u \in Users \ { session } : ClientInsertTask(u, phases[1])
  \/ \E id \in PickedTaskIds, b \in BOOLEAN : UpdateTask(id, b)
  \/ \E id \in PickedTaskIds, u \in Users \ { session } :
        ClientUpdateTask(id, u)
  \/ \E id \in AddedTaskIds : DeleteTask(id)
  \/ \E v \in VendorPayloads : AddVendor(v)
  \/ \E r \in vendors, v \in VendorPatches : UpdateVendor(r.id, v)
  \/ \E r \in vendors : DeleteVendor(r.id)
  \/ \E g \in GuestPayloads : AddGuest(g)
  \/ \E r \in guests, g \in GuestPatches : UpdateGuest(r.id, g)
  \/ \E r \in guests : DeleteGuest(r.id)
  \/ \E u \in Users, b \in BOOLEAN : ClientInsertProfile(u, b)
  \/ \E u \in Users, pt \in ProfilePatches : ClientUpdateProfile(u, pt)
  \/ \E u \in Users : ClientDeleteProfile(u)
  \/ \E u \in Users : OperatorSetAdmin(u, TRUE)

SpecDb == DbInit /\ [][DbNext]_vars

PureNext ==
  \/ UpdateProgress
  \/ GetProfileProgress
  \/ GetTasksByPhase
  \/ GetOverallStats
  \/ GetProgressColor
  \/ GuestStatisticsRendered

SpecPure == PureInit /\ [][PureNext]_vars

(***************************************************************************)
(* App: src/unnamed/part_000.  Its state, the call of checkUser() its      *)
(* mount makes, and the calls of the onAuthStateChange callback.  Each     *)
(* await is a point where the other calls and the user may take steps; a   *)
(* remote read is answered by the backend in one step and resumes the      *)
(* caller in a later one.                                                  *)
(***************************************************************************)
NetworkError == "Failed to fetch"
NoRows == "JSON object requested, multiple (or no) rows returned"

\* The seeded tasks of u, the first of them completed when u has begun.
TasksAfterSignUp(u, stamp, begun) ==
  { IF u \in begun /\ t.task_name = DefaultTasks[1][1]
    THEN [t EXCEPT !.completed = TRUE] ELSE t :
      t \in SeededTasks(ProfileRow(u, "", stamp), stamp) }

\* The backend both identities signed up with, in the order u1, u2, and
\* where an operator made u2 an admin or did not; the identities of begun
\* have completed their first task since.
Registered(isAdmin, begun) ==
  /\ authUsers = Users
  /\ profiles = { ProfileRow("u1", "", 1),
                  [ProfileRow("u2", "", 2) EXCEPT !.is_admin = isAdmin] }
  /\ tasks = TasksAfterSignUp("u1", 1, begun)
               \cup TasksAfterSignUp("u2", 2, begun)
  /\ vendors = {}
  /\ guests = {}
  /\ nextId = 1
  /\ lastError = ""
  /\ createdBy = (<< "u1", 0 >> :> "u1") @@ (<< "u2", 0 >> :> "u2")
  /\ operatorSet = IF isAdmin THEN { "u2" } ELSE {}

\* supabase.auth.getUser() of a client whose session is uid: the user (it
\* stands for user.id), or null without a session.
getCurrentUser(uid) == IF uid = NoUser THEN Null ELSE uid

\* authFunctions.getCurrentProfile() as the backend answers a client whose
\* session is uid: .single() is an error unless exactly one row comes back.
getCurrentProfile(uid) ==
  LET rows == { p \in ProfilesSelect(uid) : p.id = uid }
  IN  IF getCurrentUser(uid) = Null
      THEN [error |-> "", data |-> NoProfile]
      ELSE IF Cardinality(rows) = 1
      THEN [error |-> "", data |-> << CHOOSE p \in rows : TRUE >>]
      ELSE [error |-> NoRows, data |-> NoProfile]

\* What a call of getCurrentProfile() may come back with: the backend's
\* answer, null when getUser() failed, an error when the select failed.
ProfileAnswers(uid) ==
  { getCurrentProfile(uid),
    [error |-> "", data |-> NoProfile],
    [error |-> NetworkError, data |-> NoProfile] }

\* What App renders with a held profile tested before the user.
View_AdminFirst ==
  IF app.loading THEN "loading"
  ELSE IF app.profile # NoProfile /\ app.profile[1].is_admin = TRUE
  THEN "admin"
  ELSE IF app.user = Null THEN "auth"
  ELSE "planner"

\* What App renders (lines 66-88).
View ==
  IF app.loading THEN "loading"
  ELSE IF app.user = Null THEN "auth"
  ELSE IF app.profile # NoProfile /\ app.profile[1].is_admin = TRUE
  THEN "admin"
  ELSE "planner"

\* App is mounted in a browser whose stored session is any of the
\* identities' or none: useState's values, checkUser() called.
AppInit ==
  /\ PureIdle
  /\ \E isAdmin \in BOOLEAN : Registered(isAdmin, {})
  /\ session \in Users \cup { NoUser }
  /\ app = [user |-> Null, profile |-> NoProfile, loading |-> TRUE]
  /\ checkUser = [pc |-> "getUser"]
  /\ listener = {}
  /\ events = 0
  /\ UiIdle

\* loadProfile after its await: setProfile(profileData), or the catch.
LoadProfile(state, answer) ==
  IF answer.error = "" THEN [state EXCEPT !.profile = answer.data] ELSE state

\* checkUser: supabase.auth.getUser() is answered (with null when it fails).
CheckUserGetUser ==
  /\ checkUser.pc = "getUser"
  /\ \E u \in { getCurrentUser(session), Null } :
       checkUser' = [pc |-> "gotUser", user |-> u]
  /\ UNCHANGED << app, listener, events, session >>
  /\ UNCHANGED nonAppVars

\* checkUser resumes after getUser(): setUser(user) and the call of
\* loadProfile, or straight to the finally.
CheckUserResumes ==
  /\ checkUser.pc = "gotUser"
  /\ IF checkUser.user # Null
     THEN /\ app' = [app EXCEPT !.user = checkUser.user]
          /\ checkUser' = [pc |-> "loadProfile"]
     ELSE /\ app' = [app EXCEPT !.loading = FALSE]
          /\ checkUser' = [pc |-> "done"]
  /\ UNCHANGED << listener, events, session >>
  /\ UNCHANGED nonAppVars

\* checkUser: getCurrentProfile() of its loadProfile is answered.
CheckUserGetProfile ==
  /\ checkUser.pc = "loadProfile"
  /\ \E a \in ProfileAnswers(session) :
       checkUser' = [pc |-> "gotProfile", answer |-> a]
  /\ UNCHANGED << app, listener, events, session >>
  /\ UNCHANGED nonAppVars

\* checkUser resumes after loadProfile: setProfile or its catch, then the
\* finally.
CheckUserFinally ==
  /\ checkUser.pc = "gotProfile"
  /\ app' = [LoadProfile(app, checkUser.answer) EXCEPT !.loading = FALSE]
  /\ checkUser' = [pc |-> "done"]
  /\ UNCHANGED << listener, events, session >>
  /\ UNCHANGED nonAppVars

\* The onAuthStateChange callback is called with the session s (lines
\* 19-28), up to its await.
Listener(s) ==
  /\ events < MaxEvents
  /\ events' = events + 1
  /\ IF s # NoUser
     THEN /\ app' = [app EXCEPT !.user = s]
          /\ listener' = listener \cup { [n |-> events + 1, pc |-> "loadProfile"] }
     ELSE /\ app' = [user |-> Null, profile |-> NoProfile, loading |-> FALSE]
          /\ listener' = listener

\* An auth event that leaves the session as it is (the initial session,
\* a refreshed token).
AuthStateChange ==
  /\ Listener(session)
  /\ UNCHANGED << checkUser, session >>
  /\ UNCHANGED nonAppVars

\* AuthForm signs u in: the session is u's and the callback is called.
AuthFormSignIn(u) ==
  /\ View = "auth"
  /\ u \in authUsers
  /\ session' = u
  /\ Listener(u)
  /\ UNCHANGED checkUser
  /\ UNCHANGED nonAppVars

\* The planner or the admin dashboard signs out (its handleSignOut, when
\* signOut() succeeds): the callback is called without a session, then
\* onSignOut = App's handleSignOut sets user and profile to null.
ComponentSignOut ==
  /\ View \in { "planner", "admin" }
  /\ session' = NoUser
  /\ Listener(NoUser)
  /\ UNCHANGED checkUser
  /\ UNCHANGED nonAppVars

\* A callback's getCurrentProfile() is answered.
ListenerGetProfile(c) ==
  /\ c.pc = "loadProfile"
  /\ \E a \in ProfileAnswers(session) :
       listener' = (listener \ { c })
                     \cup { [n |-> c.n, pc |-> "gotProfile", answer |-> a] }
  /\ UNCHANGED << app, checkUser, events, session >>
  /\ UNCHANGED nonAppVars

\* A callback resumes after loadProfile: setProfile or its catch, then
\* setLoading(false).
ListenerResumes(c) ==
  /\ c.pc = "gotProfile"
  /\ app' = [LoadProfile(app, c.answer) EXCEPT !.loading = FALSE]
  /\ listener' = listener \ { c }
  /\ UNCHANGED << checkUser, events, session >>
  /\ UNCHANGED nonAppVars

AppNext ==
  \/ CheckUserGetUser
  \/ CheckUserResumes
  \/ CheckUserGetProfile
  \/ CheckUserFinally
  \/ AuthStateChange
  \/ \E u \in Users : AuthFormSignIn(u)
  \/ ComponentSignOut
  \/ \E c \in listener : ListenerGetProfile(c)
  \/ \E c \in listener : ListenerResumes(c)

SpecApp == AppInit /\ [][AppNext]_vars

\* A step in which every call that is answered comes back with what the
\* backend holds: getUser() with the session's user, getCurrentProfile()
\* with its profile row.
LoadsSucceed ==
  /\ checkUser'.pc = "gotUser" => checkUser'.user = getCurrentUser(session)
  /\ checkUser'.pc = "gotProfile" =>
       checkUser'.answer = getCurrentProfile(session)
  /\ \A c \in listener' \ listener :
       c.pc = "gotProfile" => c.answer = getCurrentProfile(session)

\* The three answers, each as the backend gives it.
CheckUserGetUserSucceeds == CheckUserGetUser /\ LoadsSucceed
CheckUserGetProfileSucceeds == CheckUserGetProfile /\ LoadsSucceed
ListenerGetProfileSucceeds(c) == ListenerGetProfile(c) /\ LoadsSucceed

\* App when no call of getUser() or getCurrentProfile() fails.
AppNextLoadsSucceed ==
  \/ CheckUserGetUserSucceeds
  \/ CheckUserResumes
  \/ CheckUserGetProfileSucceeds
  \/ CheckUserFinally
  \/ AuthStateChange
  \/ \E u \in Users : AuthFormSignIn(u)
  \/ ComponentSignOut
  \/ \E c \in listener : ListenerGetProfileSucceeds(c)
  \/ \E c \in listener : ListenerResumes(c)

SpecAppLoadsSucceed == AppInit /\ [][AppNextLoadsSucceed]_vars

(***************************************************************************)
(* WeddingPlanner (src/unnamed/part_001) and AdminDashboard                *)
(* (src/src/components/AdminDashboard.tsx), mounted by an App that has     *)
(* settled: the planner for a regular identity, the dashboard for an       *)
(* admin.  A list the component holds is modelled as the set of its rows.  *)
(* Every remote call may fail in transit with an error of its own; a call  *)
(* that changes a table is made and resumed in one step, a read started    *)
(* by a change notification is answered in one step and resumes its        *)
(* caller in a later one.                                                  *)
(***************************************************************************)
ReadErrors == { NetworkError }
WriteErrors == { NetworkError }

\* The values typed into the forms.
VendorInputs == [name : { "", "Rose & Co" }, type : { "", "Florist" }]
GuestInputs ==
  [first_name : { "", "Ada" }, last_name : { "", "Lee" },
   rsvp_status : { "pending" }]

\* dbFunctions.getTasks / getVendors / getGuests: the rows the select of
\* a client whose session is uid returns.
getTasks(uid) == OwnedSelect(uid, tasks)
getVendors(uid) == OwnedSelect(uid, vendors)
getGuests(uid) == OwnedSelect(uid, guests)

\* What a read of the planner may come back with.
Answers(what, uid) ==
  IF what = "profile" THEN ProfileAnswers(uid)
  ELSE { [error |-> "",
          data |-> CASE what = "tasks" -> getTasks(uid)
                     [] what = "vendors" -> getVendors(uid)
                     [] what = "guests" -> getGuests(uid)] }
         \cup { [error |-> m, data |-> {}] : m \in ReadErrors }

\* The planner and the dashboard as App mounts them for the identity
\* signed in.
ComponentsInit ==
  /\ PureIdle
  /\ session \in Users
  /\ Registered(TRUE, IF session = "u2" THEN { "u1" } ELSE {})
  /\ app = [user |-> session, profile |-> getCurrentProfile(session).data,
            loading |-> FALSE]
  /\ checkUser = [pc |-> "done"]
  /\ listener = {}
  /\ events = 0
  /\ planner = PlannerMounted
  /\ admin = AdminMounted
  /\ loadData = IF session = "u1" THEN LoadDataCalled ELSE LoadDataIdle
  /\ loadClientsData = IF session = "u2" THEN LoadClientsDataCalled
                       ELSE LoadClientsDataIdle
  /\ refetches = {}
  /\ issued = 1
  /\ lastIssued = [c \in Collections |->
                     [n |-> 1, status |-> "pending", data |-> {}]]
  /\ heldFrom = [c \in Collections |-> 0]

\* loadData after Promise.all resolved with got: the four setters and the
\* finally (lines 89-92, 96).
LoadDataThen(state, got) ==
  [state EXCEPT !.profile = got.profile, !.tasks = got.tasks,
                !.vendors = got.vendors, !.guests = got.guests,
                !.loading = FALSE]

\* A catch that keeps what the reads that did come back returned.
LoadDataCatch_Partial(state, got, message) ==
  [LoadDataThen(state, got) EXCEPT !.error = message]

\* A catch that is not followed by the finally.
LoadDataCatch_NoFinally(state, got, message) ==
  [state EXCEPT !.error = message]

\* loadData after Promise.all rejected: the catch and the finally (lines
\* 93-96).
LoadDataCatch(state, got, message) ==
  [state EXCEPT !.error = message, !.loading = FALSE]

\* The outcome of loadData's read of the collections, as its call site
\* sees it.
LoadDataOutcome(status, got) ==
  [c \in Collections |->
     IF lastIssued[c].n = 1
     THEN [n |-> 1, status |-> status,
           data |-> IF status = "ok" THEN got[c] ELSE {}]
     ELSE lastIssued[c]]

\* loadData: one of the four reads of its Promise.all comes back with a.
LoadDataRead(what, a) ==
  /\ View = "planner"
  /\ loadData.pc = "awaiting"
  /\ what \in loadData.pending
  /\ lastError' = a.error
  /\ LET got == [loadData EXCEPT ![what] = a.data, !.pending = @ \ { what }]
     IN  IF a.error # ""
         THEN /\ planner' = LoadDataCatch(planner, loadData, a.error)
              /\ loadData' = LoadDataSettled(a.error)
              /\ lastIssued' = LoadDataOutcome("failed", got)
              /\ UNCHANGED heldFrom
         ELSE IF got.pending = {}
         THEN /\ planner' = LoadDataThen(planner, got)
              /\ loadData' = LoadDataSettled("")
              /\ lastIssued' = LoadDataOutcome("ok", got)
              /\ heldFrom' = [c \in Collections |-> 1]
         ELSE /\ loadData' = got
              /\ UNCHANGED << planner, lastIssued, heldFrom >>
  /\ UNCHANGED << refetches, issued, admin, loadClientsData >>
  /\ UNCHANGED << fn, input, output, appVars >>
  /\ UNCHANGED << authUsers, session, profiles, tasks, vendors, guests,
                  nextId, createdBy, operatorSet >>

\* A change of table what reaches the subscription: its callback calls
\* dbFunctions.getTasks / getVendors / getGuests (part_002 lines 292-319).
Notified(what) ==
  /\ refetches' = refetches
                    \cup { [n |-> issued + 1, what |-> what, pc |-> "sent"] }
  /\ issued' = issued + 1
  /\ lastIssued' = [lastIssued EXCEPT
                      ![what] = [n |-> issued + 1, status |-> "pending",
                                 data |-> {}]]

\* A statement that changed no row of the identity: no notification.
NotNotified == UNCHANGED << refetches, issued, lastIssued >>

\* The statement WHERE id = id of uid matches a row of rows.
Matches(uid, rows, id) ==
  \E r \in OwnedSelect(uid, rows) : r.id = id /\ UsersCanManageOwn(uid, r)

\* The read of a notification comes back with a: then(callback) keeps the
\* rows for the callback, and does nothing with a rejection.
RefetchRead(r, a) ==
  /\ View = "planner"
  /\ r.pc = "sent"
  /\ lastError' = a.error
  /\ refetches' =
       IF a.error = ""
       THEN (refetches \ { r })
              \cup { [n |-> r.n, what |-> r.what, pc |-> "answered",
                      data |-> a.data] }
       ELSE refetches \ { r }
  /\ lastIssued' =
       IF lastIssued[r.what].n # r.n THEN lastIssued
       ELSE [lastIssued EXCEPT
               ![r.what] = [n |-> r.n,
                            status |-> IF a.error = "" THEN "ok"
                                       ELSE "failed",
                            data |-> a.data]]
  /\ UNCHANGED << planner, loadData, issued, admin, loadClientsData,
                  heldFrom >>
  /\ UNCHANGED << fn, input, output, appVars >>
  /\ UNCHANGED << authUsers, session, profiles, tasks, vendors, guests,
                  nextId, createdBy, operatorSet >>

\* The callback of a notification's read: setTasks / setVendors / setGuests
\* (part_001 lines 68-70).
RefetchThen(r) ==
  /\ View = "planner"
  /\ r.pc = "answered"
  /\ planner' = [planner EXCEPT ![r.what] = r.data]
  /\ heldFrom' = [heldFrom EXCEPT ![r.what] = r.n]
  /\ refetches' = refetches \ { r }
  /\ UNCHANGED << loadData, issued, admin, loadClientsData, lastIssued >>
  /\ UNCHANGED << fn, input, output, appVars, dbVars >>

\* What the planner's handlers leave alone.
HandlerFrame ==
  /\ UNCHANGED << loadData, admin, loadClientsData, heldFrom >>
  /\ UNCHANGED << fn, input, output, appVars, session >>

\* The catch of a handler: setError(err.message).
Catch(state, error) ==
  IF error = "" THEN state ELSE [state EXCEPT !.error = error]

\* A toggle that sends the value the planner shows, not its negation.
ToggleTask_SendsShown(t, fault) ==
  /\ View = "planner"
  /\ ~planner.loading
  /\ planner.activeTab = "checklist"
  /\ issued <= MaxRefetch
  /\ t \in planner.tasks
  /\ LET res == IF fault # "" THEN [error |-> fault, rows |-> tasks]
                ELSE OwnedUpdate(session, tasks, t.id,
                                 [completed |-> t.completed])
     IN  /\ TasksStored(res)
         /\ planner' = Catch(planner, res.error)
         /\ IF res.error = "" /\ Matches(session, tasks, t.id)
            THEN Notified("tasks") ELSE NotNotified
  /\ HandlerFrame

\* toggleTask(task.id, !task.completed) on a task the planner shows (lines
\* 109-115, 297); fault: the error the call fails with in transit.
ToggleTask(t, fault) ==
  /\ View = "planner"
  /\ ~planner.loading
  /\ planner.activeTab = "checklist"
  /\ issued <= MaxRefetch
  /\ t \in planner.tasks
  /\ LET res == IF fault # "" THEN [error |-> fault, rows |-> tasks]
                ELSE OwnedUpdate(session, tasks, t.id,
                                 [completed |-> ~t.completed])
     IN  /\ TasksStored(res)
         /\ planner' = Catch(planner, res.error)
         /\ IF res.error = "" /\ Matches(session, tasks, t.id)
            THEN Notified("tasks") ELSE NotNotified
  /\ HandlerFrame

\* The same identity, on another device, sets a task's completed.
ElsewhereUpdateTask(id, completed) ==
  /\ View = "planner"
  /\ issued <= MaxRefetch
  /\ LET res == OwnedUpdate(session, tasks, id, [completed |-> completed])
     IN  /\ TasksStored(res)
         /\ IF res.error = "" /\ Matches(session, tasks, id)
            THEN Notified("tasks") ELSE NotNotified
  /\ UNCHANGED planner
  /\ HandlerFrame

\* The tabs of the planner (lines 255, 282, 319, 424): the checklist with
\* its toggle buttons, the vendors and the guests with their forms.
Tabs == { "checklist", "vendors", "guests" }

\* onClick of a tab: setActiveTab(tab.id).
SetActiveTab(tab) ==
  /\ View = "planner"
  /\ ~planner.loading
  /\ planner.activeTab # tab
  /\ planner' = [planner EXCEPT !.activeTab = tab]
  /\ UNCHANGED << loadData, refetches, issued, admin, loadClientsData,
                  lastIssued, heldFrom >>
  /\ UNCHANGED << fn, input, output, appVars, dbVars >>

\* onChange of a field of the vendor form (lines 329-364).
SetNewVendor(field, value) ==
  /\ View = "planner"
  /\ ~planner.loading
  /\ planner.activeTab = "vendors"
  /\ planner.newVendor[field] # value
  /\ planner' = [planner EXCEPT !.newVendor[field] = value]
  /\ UNCHANGED << loadData, refetches, issued, admin, loadClientsData,
                  lastIssued, heldFrom >>
  /\ UNCHANGED << fn, input, output, appVars, dbVars >>

\* onChange of a field of the guest form (lines 434-467).
SetNewGuest(field, value) ==
  /\ View = "planner"
  /\ ~planner.loading
  /\ planner.activeTab = "guests"
  /\ planner.newGuest[field] # value
  /\ planner' = [planner EXCEPT !.newGuest[field] = value]
  /\ UNCHANGED << loadData, refetches, issued, admin, loadClientsData,
                  lastIssued, heldFrom >>
  /\ UNCHANGED << fn, input, output, appVars, dbVars >>

\* A saveVendor without the check of the required fields.
SaveVendor_Unchecked(fault) ==
  /\ View = "planner"
  /\ ~planner.loading
  /\ planner.activeTab = "vendors"
  /\ nextId <= MaxRows
  /\ issued <= MaxRefetch
  /\ LET res == IF fault # "" THEN [error |-> fault, rows |-> vendors]
                ELSE addVendor(planner.newVendor)
     IN  /\ VendorsStored(res)
         /\ planner' =
              IF res.error = ""
              THEN [planner EXCEPT !.newVendor = BlankVendor]
              ELSE Catch(planner, res.error)
         /\ IF res.error = "" THEN Notified("vendors")
            ELSE NotNotified
  /\ HandlerFrame

\* saveVendor (lines 117-133)
SaveVendor(fault) ==
  /\ View = "planner"
  /\ ~planner.loading
  /\ planner.activeTab = "vendors"
  /\ IF planner.newVendor.name = "" \/ planner.newVendor.type = ""
     THEN UNCHANGED vars
     ELSE /\ nextId <= MaxRows
          /\ issued <= MaxRefetch
          /\ LET res == IF fault # "" THEN [error |-> fault, rows |-> vendors]
                        ELSE addVendor(planner.newVendor)
             IN  /\ VendorsStored(res)
                 /\ planner' =
                      IF res.error = ""
                      THEN [planner EXCEPT !.newVendor = BlankVendor]
                      ELSE Catch(planner, res.error)
                 /\ IF res.error = "" THEN Notified("vendors")
                    ELSE NotNotified
          /\ HandlerFrame

\* A deleteVendor that also takes the vendor out of the displayed list.
PlannerDeleteVendor_RemovesShown(v, fault) ==
  /\ View = "planner"
  /\ ~planner.loading
  /\ planner.activeTab = "vendors"
  /\ issued <= MaxRefetch
  /\ v \in planner.vendors
  /\ LET res == IF fault # "" THEN [error |-> fault, rows |-> vendors]
                ELSE OwnedDelete(session, vendors, v.id)
     IN  /\ VendorsStored(res)
         /\ planner' =
              IF res.error = ""
              THEN [planner EXCEPT !.vendors = @ \ { v }]
              ELSE Catch(planner, res.error)
         /\ IF res.error = "" /\ Matches(session, vendors, v.id)
            THEN Notified("vendors") ELSE NotNotified
  /\ HandlerFrame

\* deleteVendor(vendor.id) on a vendor the planner shows (lines 135-141)
PlannerDeleteVendor(v, fault) ==
  /\ View = "planner"
  /\ ~planner.loading
  /\ planner.activeTab = "vendors"
  /\ issued <= MaxRefetch
  /\ v \in planner.vendors
  /\ LET res == IF fault # "" THEN [error |-> fault, rows |-> vendors]
                ELSE OwnedDelete(session, vendors, v.id)
     IN  /\ VendorsStored(res)
         /\ planner' = Catch(planner, res.error)
         /\ IF res.error = "" /\ Matches(session, vendors, v.id)
            THEN Notified("vendors") ELSE NotNotified
  /\ HandlerFrame

\* A saveGuest that clears the form in a finally, whatever the outcome.
SaveGuest_AlwaysResets(fault) ==
  /\ View = "planner"
  /\ ~planner.loading
  /\ planner.activeTab = "guests"
  /\ IF planner.newGuest.first_name = "" \/ planner.newGuest.last_name = ""
     THEN UNCHANGED vars
     ELSE /\ nextId <= MaxRows
          /\ issued <= MaxRefetch
          /\ LET res == IF fault # "" THEN [error |-> fault, rows |-> guests]
                        ELSE addGuest(planner.newGuest)
             IN  /\ GuestsStored(res)
                 /\ planner' =
                      [Catch(planner, res.error) EXCEPT
                         !.newGuest = BlankGuest]
                 /\ IF res.error = "" THEN Notified("guests")
                    ELSE NotNotified
          /\ HandlerFrame

\* saveGuest (lines 143-162)
SaveGuest(fault) ==
  /\ View = "planner"
  /\ ~planner.loading
  /\ planner.activeTab = "guests"
  /\ IF planner.newGuest.first_name = "" \/ planner.newGuest.last_name = ""
     THEN UNCHANGED vars
     ELSE /\ nextId <= MaxRows
          /\ issued <= MaxRefetch
          /\ LET res == IF fault # "" THEN [error |-> fault, rows |-> guests]
                        ELSE addGuest(planner.newGuest)
             IN  /\ GuestsStored(res)
                 /\ planner' =
                      IF res.error = ""
                      THEN [planner EXCEPT !.newGuest = BlankGuest]
                      ELSE Catch(planner, res.error)
                 /\ IF res.error = "" THEN Notified("guests")
                    ELSE NotNotified
          /\ HandlerFrame

\* deleteGuest(guest.id) on a guest the planner shows (lines 164-170)
PlannerDeleteGuest(g, fault) ==
  /\ View = "planner"
  /\ ~planner.loading
  /\ planner.activeTab = "guests"
  /\ issued <= MaxRefetch
  /\ g \in planner.guests
  /\ LET res == IF fault # "" THEN [error |-> fault, rows |-> guests]
                ELSE OwnedDelete(session, guests, g.id)
     IN  /\ GuestsStored(res)
         /\ planner' = Catch(planner, res.error)
         /\ IF res.error = "" /\ Matches(session, guests, g.id)
            THEN Notified("guests") ELSE NotNotified
  /\ HandlerFrame

\* What a sign-out leaves alone in the backend.
SignOutFrame ==
  /\ UNCHANGED << fn, input, output, checkUser, issued, heldFrom, lastIssued >>
  /\ UNCHANGED << authUsers, profiles, tasks, vendors, guests, nextId,
                  createdBy, operatorSet >>

\* WeddingPlanner.handleSignOut (lines 100-107): signOut() ends the session
\* and the onAuthStateChange callback is called without one, then onSignOut
\* = App's handleSignOut (part_000 lines 61-64) sets user and profile to
\* null again; App unmounts the planner: its effects unsubscribe and its
\* state is dropped.
PlannerHandleSignOut(fault) ==
  /\ View = "planner"
  /\ ~planner.loading
  /\ lastError' = fault
  /\ IF fault = ""
     THEN /\ session' = NoUser
          /\ Listener(NoUser)
          /\ refetches' = {}
          /\ loadData' = LoadDataIdle
          /\ planner' = PlannerMounted
     ELSE /\ planner' = Catch(planner, fault)
          /\ UNCHANGED << session, app, listener, events, refetches,
                          loadData >>
  /\ UNCHANGED << admin, loadClientsData >>
  /\ SignOutFrame

\* A handleSignOut that calls onSignOut whether signOut() failed or not.
AdminHandleSignOut_AlwaysOnSignOut(fault) ==
  /\ View = "admin"
  /\ ~admin.loading
  /\ lastError' = fault
  /\ IF fault = ""
     THEN /\ session' = NoUser
          /\ Listener(NoUser)
          /\ UNCHANGED admin
     ELSE /\ admin' = Catch(admin, fault)
          /\ app' = [app EXCEPT !.user = Null, !.profile = NoProfile]
          /\ UNCHANGED << session, listener, events >>
  /\ UNCHANGED << planner, loadData, refetches, loadClientsData >>
  /\ SignOutFrame

\* AdminDashboard.handleSignOut (lines 57-64)
AdminHandleSignOut(fault) ==
  /\ View = "admin"
  /\ ~admin.loading
  /\ lastError' = fault
  /\ IF fault = ""
     THEN /\ session' = NoUser
          /\ Listener(NoUser)
          /\ UNCHANGED admin
     ELSE /\ admin' = Catch(admin, fault)
          /\ UNCHANGED << session, app, listener, events >>
  /\ UNCHANGED << planner, loadData, refetches, loadClientsData >>
  /\ SignOutFrame

\* The rows as a list, the latest created_at first.
RECURSIVE OrderByCreatedAtDesc(_)
OrderByCreatedAtDesc(rows) ==
  IF rows = {} THEN << >>
  ELSE LET first == CHOOSE r \in rows :
                      \A q \in rows : q.created_at <= r.created_at
       IN  << first >> \o OrderByCreatedAtDesc(rows \ { first })

\* dbFunctions.getAllProfiles as the backend answers a client whose
\* session is uid.
getAllProfiles(uid) == OrderByCreatedAtDesc(ProfilesSelect(uid))

\* select('completed') ... eq('user_id', userId): one { completed } per
\* row, as the backend answers a client whose session is uid.
\* No order is asked for: the completed rows are taken to come first.
CompletedColumn(rows) ==
  LET done == Cardinality({ r \in rows : r.completed })
  IN  [i \in 1..Cardinality(rows) |-> [completed |-> i <= done]]

\* What a call of dbFunctions.getProfileProgress(userId) returns.
ProfileProgress(uid, userId) ==
  getProfileProgress(
    CompletedColumn({ t \in OwnedSelect(uid, tasks) : t.user_id = userId }))

\* loadClientsData after a rejection: the catch and the finally (lines
\* 50-54).
LoadClientsDataCatch(state, call, message) ==
  [state EXCEPT !.error = message, !.loading = FALSE]

\* A setClients that pairs the profiles with the progresses in the
\* opposite order.
LoadClientsDataThen_PairsReversed(state, call) ==
  [state EXCEPT !.clients = [i \in 1..Len(call.profiles) |->
                               [profile |-> call.profiles[i],
                                progress |->
                                  call.progress[Len(call.profiles) + 1 - i]]],
                !.loading = FALSE]

\* loadClientsData after Promise.all resolved: setClients and the finally.
LoadClientsDataThen(state, call) ==
  [state EXCEPT !.clients = [i \in 1..Len(call.profiles) |->
                               [profile |-> call.profiles[i],
                                progress |-> call.progress[i]]],
                !.loading = FALSE]

\* What the dashboard's load leaves alone.
AdminFrame ==
  /\ UNCHANGED << planner, loadData, refetches, issued, lastIssued,
                  heldFrom >>
  /\ UNCHANGED << fn, input, output, appVars >>
  /\ UNCHANGED << authUsers, session, profiles, tasks, vendors, guests,
                  nextId, createdBy, operatorSet >>

\* loadClientsData: getAllProfiles() comes back (lines 40-47).
LoadClientsDataProfiles(fault) ==
  /\ View = "admin"
  /\ loadClientsData.pc = "getAllProfiles"
  /\ lastError' = fault
  /\ LET list == getAllProfiles(session)
         call == [loadClientsData EXCEPT !.pc = "progress",
                                         !.profiles = list,
                                         !.pending = 1..Len(list)]
     IN  IF fault # ""
         THEN /\ admin' = LoadClientsDataCatch(admin, loadClientsData, fault)
              /\ loadClientsData' = LoadClientsDataSettled(fault)
         ELSE IF list = << >>
         THEN /\ admin' = LoadClientsDataThen(admin, call)
              /\ loadClientsData' = LoadClientsDataSettled("")
         ELSE /\ loadClientsData' = call
              /\ UNCHANGED admin
  /\ AdminFrame

\* loadClientsData: the getProfileProgress() of the i-th profile comes
\* back; Promise.all resolves with the last, rejects with the first error.
LoadClientsDataProgress(i, fault) ==
  /\ View = "admin"
  /\ loadClientsData.pc = "progress"
  /\ i \in loadClientsData.pending
  /\ lastError' = fault
  /\ LET call == [loadClientsData EXCEPT
                    !.pending = @ \ { i },
                    !.progress = @ @@ (i :> ProfileProgress(
                                   session, loadClientsData.profiles[i].id))]
     IN  IF fault # ""
         THEN /\ admin' = LoadClientsDataCatch(admin, loadClientsData, fault)
              /\ loadClientsData' = LoadClientsDataSettled(fault)
         ELSE IF call.pending = {}
         THEN /\ admin' = LoadClientsDataThen(admin, call)
              /\ loadClientsData' = LoadClientsDataSettled("")
         ELSE /\ loadClientsData' = call
              /\ UNCHANGED admin
  /\ AdminFrame

ComponentsNext ==
  \/ \E what \in { "profile" } \cup Collections :
       \E a \in Answers(what, session) : LoadDataRead(what, a)
  \/ \E r \in refetches : \E a \in Answers(r.what, session) : RefetchRead(r, a)
  \/ \E r \in refetches : RefetchThen(r)
  \/ \E t \in { x \in planner.tasks : x.task_name \in PickedTaskNames },
        fault \in { "" } \cup WriteErrors : ToggleTask(t, fault)
  \/ \E id \in PickedTaskIds, b \in BOOLEAN : ElsewhereUpdateTask(id, b)
  \/ \E tab \in Tabs : SetActiveTab(tab)
  \/ \E field \in DOMAIN BlankVendor :
       \E form \in VendorInputs : SetNewVendor(field, form[field])
  \/ \E field \in DOMAIN BlankGuest :
       \E form \in GuestInputs : SetNewGuest(field, form[field])
  \/ \E fault \in { "" } \cup WriteErrors : SaveVendor(fault)
  \/ \E v \in planner.vendors, fault \in { "" } \cup WriteErrors :
       PlannerDeleteVendor(v, fault)
  \/ \E fault \in { "" } \cup WriteErrors : SaveGuest(fault)
  \/ \E g \in planner.guests, fault \in { "" } \cup WriteErrors :
       PlannerDeleteGuest(g, fault)
  \/ \E fault \in { "" } \cup WriteErrors : PlannerHandleSignOut(fault)
  \/ \E fault \in { "" } \cup WriteErrors : AdminHandleSignOut(fault)
  \/ \E fault \in { "" } \cup ReadErrors : LoadClientsDataProfiles(fault)
  \/ \E i \in loadClientsData.pending, fault \in { "" } \cup ReadErrors :
       LoadClientsDataProgress(i, fault)

SpecComponents == ComponentsInit /\ [][ComponentsNext]_vars

(***************************************************************************)
(* The mounts of the three components under fair scheduling: App as       *)
(* AppInit mounts it, or the planner (on its checklist tab, where it       *)
(* opens) or the dashboard as ComponentsInit mounts it.  No component is   *)
(* mounted (UiIdle) exactly in the behaviours of App.  Each remote call    *)
(* that is awaited returns, and the code after an await runs.              *)
(***************************************************************************)
MountInit == AppInit \/ ComponentsInit

\* loadData: one of its reads returns.
LoadDataReturns ==
  \E what \in { "profile" } \cup Collections :
    \E a \in Answers(what, session) : LoadDataRead(what, a)

\* loadClientsData: one of its reads returns, with an error or without.
LoadClientsDataReturns ==
  \/ \E fault \in { "" } \cup ReadErrors : LoadClientsDataProfiles(fault)
  \/ \E i \in loadClientsData.pending, fault \in ReadErrors :
       LoadClientsDataProgress(i, fault)
  \/ \E i \in loadClientsData.pending : LoadClientsDataProgress(i, "")

\* The steps of the notifications' reads.
RefetchStep ==
  \/ \E r \in refetches :
       \E a \in Answers(r.what, session) : RefetchRead(r, a)
  \/ \E r \in refetches : RefetchThen(r)

\* The steps on the checklist.
ChecklistStep ==
  \/ \E t \in { x \in planner.tasks : x.task_name \in PickedTaskNames },
        fault \in { "" } \cup WriteErrors : ToggleTask(t, fault)
  \/ \E id \in PickedTaskIds, b \in BOOLEAN : ElsewhereUpdateTask(id, b)

\* The sign-out of the mounted component.
HandleSignOutStep ==
  \/ \E fault \in { "" } \cup WriteErrors : PlannerHandleSignOut(fault)
  \/ \E fault \in { "" } \cup WriteErrors : AdminHandleSignOut(fault)

AppStep == UiIdle /\ AppNext
MountedStep ==
  /\ ~UiIdle
  /\ \/ LoadDataReturns
     \/ LoadClientsDataReturns
     \/ RefetchStep
     \/ ChecklistStep
     \/ HandleSignOutStep

MountNext == AppStep \/ MountedStep

SpecMountFair ==
  /\ MountInit
  /\ [][MountNext]_vars
  /\ WF_vars(CheckUserGetUser)
  /\ WF_vars(CheckUserResumes)
  /\ WF_vars(CheckUserGetProfile)
  /\ WF_vars(CheckUserFinally)
  /\ WF_vars(LoadDataReturns)
  /\ WF_vars(LoadClientsDataReturns)

(***************************************************************************)
(* Properties of App (checked under SpecApp).                              *)
(***************************************************************************)
\* C7: whenever loading is false, App shows the auth form exactly when
\* user is null, the admin dashboard exactly when user is not null and the
\* held profile has is_admin true, and the planner in every other case.
C7_ViewBySessionAndAdminFlag ==
  ~app.loading =>
    LET isAdmin == app.profile # NoProfile /\ app.profile[1].is_admin = TRUE
    IN  /\ View = "auth" <=> app.user = Null
        /\ View = "admin" <=> (app.user # Null /\ isAdmin)
        /\ View = "planner" <=> (app.user # Null /\ ~isAdmin)

\* A profile with is_admin true is held while user is null: a profile load
\* that a sign-out overtook.
C7_Witness ==
  /\ ~app.loading
  /\ app.user = Null
  /\ app.profile # NoProfile /\ app.profile[1].is_admin = TRUE
  /\ View = "auth"

(***************************************************************************)
(* Properties of the planner and the dashboard (checked under              *)
(* SpecComponents).                                                        *)
(***************************************************************************)
\* C8: when one of the four reads of the planner's loadData fails,
\* loadData assigns none of profile, tasks, vendors and guests and sets
\* error to that failure's message; when getAllProfiles or one
\* getProfileProgress of the dashboard's loadClientsData fails, clients is
\* not assigned and error is set to the message; in both, loading is false
\* once the call is over.
C8_InitialReadsAllOrNothing ==
  /\ [][ (loadData.pc = "awaiting" /\ loadData'.pc = "done"
            /\ loadData'.rejected # "") =>
           /\ planner'.profile = planner.profile
           /\ planner'.tasks = planner.tasks
           /\ planner'.vendors = planner.vendors
           /\ planner'.guests = planner.guests
           /\ planner'.error = lastError'
           /\ loadData'.rejected = lastError' ]_vars
  /\ [][ (loadClientsData.pc \in { "getAllProfiles", "progress" }
            /\ loadClientsData'.pc = "done"
            /\ loadClientsData'.rejected # "") =>
           /\ admin'.clients = admin.clients
           /\ admin'.error = lastError'
           /\ loadClientsData'.rejected = lastError' ]_vars
  /\ [](loadData.pc = "done" => ~planner.loading)
  /\ [](loadClientsData.pc = "done" => ~admin.loading)

\* C8 witness: loadData is over with a rejection while the planner is
\* shown: the error is held, nothing of the reads is.
C8_Witness ==
  /\ View = "planner"
  /\ loadData.pc = "done"
  /\ loadData.rejected = NetworkError
  /\ planner.error = NetworkError
  /\ ~planner.loading
  /\ planner.tasks = {} /\ planner.profile = NoProfile
  /\ getTasks(session) # {}

\* No read of collection c is under way.
Quiescent(c) ==
  /\ loadData.pc = "done"
  /\ ~(\E r \in refetches : r.what = c)

\* C9: for tasks, vendors and guests alike, once every read of the
\* collection is back the planner holds the result of the read issued
\* last, and the result of a read is never replaced by the result of a
\* read issued before it.
C9_LatestRefetchHeld ==
  /\ [](\A c \in Collections :
          (View = "planner" /\ Quiescent(c) /\ lastIssued[c].status = "ok")
            => planner[c] = lastIssued[c].data)
  /\ [][ \A c \in Collections : heldFrom'[c] >= heldFrom[c] ]_vars

\* The task rows but for their completed flag.
Unflagged(rows) == { [r EXCEPT !.completed = FALSE] : r \in rows }

\* A step of the same identity on another device.
ElsewhereStep ==
  \E id \in PickedTaskIds, b \in BOOLEAN : ElsewhereUpdateTask(id, b)

\* C12: no action in the planner (toggling a task, adding or deleting a
\* vendor or a guest, switching tabs, signing out, loading) creates or
\* deletes a task or changes a task's name, phase or owner: the task rows
\* stay the seeded ones; an action changes completed only, on the one task
\* whose button was clicked, to the negation of the value shown.
C12_TasksOnlyToggled ==
  /\ \A u \in Users :
       Unflagged({ t \in tasks : t.user_id = u })
         = SeededTasks(ProfileRow(u, "", 1), IF u = "u1" THEN 1 ELSE 2)
  /\ [][ tasks' # tasks =>
           /\ Unflagged(tasks') = Unflagged(tasks)
           /\ ElsewhereStep \/ \E t \in planner.tasks : ToggleTask(t, "")
           /\ \A t \in planner.tasks :
                ToggleTask(t, "") =>
                  tasks' \ tasks
                    = { [r EXCEPT !.completed = ~t.completed] :
                          r \in { q \in tasks : q.id = t.id } } ]_vars

\* C12 witness: a task is completed in the table and shown so in the
\* checklist, a vendor has been added, and the identity's tasks are still
\* the 60 seeded ones.
C12_Witness ==
  /\ View = "planner"
  /\ \E t \in tasks : t.completed /\ t \in planner.tasks
  /\ vendors # {}
  /\ Cardinality({ t \in tasks : t.user_id = session }) = Len(DefaultTasks)

\* C18: getTasks, getVendors and getGuests return all and only the rows
\* of the collection owned by the calling identity, for every caller, one
\* whose profile has is_admin = true included.
C18_ReadsReturnOwnRows ==
  session \in Users =>
    /\ getTasks(session) = { t \in tasks : t.user_id = session }
    /\ getVendors(session) = { v \in vendors : v.user_id = session }
    /\ getGuests(session) = { g \in guests : g.user_id = session }

\* The add forms with a required field left empty.
VendorFormIncomplete ==
  planner.newVendor.name = "" \/ planner.newVendor.type = ""
GuestFormIncomplete ==
  planner.newGuest.first_name = "" \/ planner.newGuest.last_name = ""

\* C14: saveVendor with an empty name or type, and saveGuest with an empty
\* first or last name, make no remote call and leave the form, the error
\* and the stored and displayed vendors and guests as they were.
C14_IncompleteSaveIsNoOp ==
  [][ ( \/ /\ VendorFormIncomplete
            /\ \E fault \in { "" } \cup WriteErrors : SaveVendor(fault)
        \/ /\ GuestFormIncomplete
            /\ \E fault \in { "" } \cup WriteErrors : SaveGuest(fault) )
      => UNCHANGED << planner, vendors, guests, lastError, refetches,
                      issued >> ]_vars

\* C14 witness: the vendor form is open with a name and no type, an error
\* of an earlier call is displayed.
C14_Witness ==
  /\ View = "planner"
  /\ ~planner.loading
  /\ planner.activeTab = "vendors"
  /\ planner.newVendor.name # ""
  /\ planner.newVendor.type = ""
  /\ planner.error # ""

\* Collection c of the planner is assigned in this step: by loadData,
\* whose Promise.all resolves with the last of its reads, the rows that
\* read and the earlier ones returned; or by the callback of a change
\* notification, the rows its read returned.
AssignedFetched(c) ==
  \/ \E what \in loadData.pending :
       \E a \in Answers(what, session) :
         /\ LoadDataRead(what, a)
         /\ planner'[c] = IF what = c THEN a.data ELSE loadData[c]
  \/ \E r \in refetches :
       /\ r.what = c
       /\ RefetchThen(r)
       /\ planner'[c] = r.data

\* C19: while the planner is mounted its tasks, vendors and guests change
\* only by being replaced with the complete result of a read, in loadData
\* or in the callback of a change notification; toggleTask, saveVendor,
\* deleteVendor, saveGuest and deleteGuest leave the three lists as they
\* are, whether the request succeeds or fails.
C19_CollectionsOnlyReplaced ==
  [][ \A c \in Collections :
        (planner'[c] # planner[c] /\ View = "planner" /\ View' = "planner")
          => AssignedFetched(c) ]_vars

\* C19 witness: the vendor the planner shows has been deleted in the
\* table by deleteVendor; the list still shows it while the read of the
\* notification is under way.
C19_Witness ==
  /\ View = "planner"
  /\ vendors = {}
  /\ planner.vendors # {}
  /\ \E r \in refetches : r.what = "vendors" /\ r.pc = "sent"

\* The progress of identity u as the task table has it.
OwnProgress(u) ==
  LET own  == { t \in tasks : t.user_id = u }
      done == { t \in own : t.completed }
  IN  [total |-> Cardinality(own), completed |-> Cardinality(done),
       percentage |-> Percentage(Cardinality(done), Cardinality(own))]

\* C23: in whatever order the responses of the per-profile
\* getProfileProgress calls arrive, the dashboard's clients list has the
\* length and the order of the list getAllProfiles returned, and the
\* progress paired with each profile is the one of that profile's own
\* tasks.
C23_ClientsInProfileOrder ==
  (View = "admin" /\ loadClientsData.pc = "done"
     /\ loadClientsData.rejected = "") =>
    LET list == getAllProfiles(session)
    IN  /\ Len(admin.clients) = Len(list)
        /\ \A i \in 1..Len(list) :
             /\ admin.clients[i].profile = list[i]
             /\ admin.clients[i].progress = OwnProgress(list[i].id)

\* C23 witness: the dashboard holds the admin u2 (signed up last) first,
\* with none of its tasks completed, and u1 second, with one completed.
C23_Witness ==
  /\ View = "admin"
  /\ ~admin.loading
  /\ Len(admin.clients) = 2
  /\ admin.clients[1].profile.id = "u2"
  /\ admin.clients[1].progress.completed = 0
  /\ admin.clients[2].profile.id = "u1"
  /\ admin.clients[2].progress.completed = 1
  /\ admin.clients[2].progress.percentage = 2

\* The error the mounted component displays.
ShownError == IF View = "admin" THEN admin.error ELSE planner.error

\* C24: a sign-out from the planner or the dashboard whose remote
\* signOut succeeds leaves App with user = null and profile = null, the
\* auth form shown; one whose signOut fails leaves user and profile as
\* they were, the same view shown, and the error set to the failure's
\* message.
C24_SignOutOutcome ==
  [][ /\ (PlannerHandleSignOut("") \/ AdminHandleSignOut("")) =>
           /\ app'.user = Null
           /\ app'.profile = NoProfile
           /\ View' = "auth"
      /\ \A fault \in WriteErrors :
           (PlannerHandleSignOut(fault) \/ AdminHandleSignOut(fault)) =>
             /\ app' = app
             /\ View' = View
             /\ ShownError' = fault ]_vars

\* C24 witness: the dashboard loaded its clients, and a sign-out that
\* failed left it shown with the failure's message, the user still held.
C24_Witness ==
  /\ View = "admin"
  /\ loadClientsData.pc = "done"
  /\ loadClientsData.rejected = ""
  /\ admin.error = NetworkError
  /\ app.user = session
  /\ session \in Users

\* C26: in App, the planner and the dashboard loading becomes false
\* after the mount, whether the reads of the mount succeed or fail, and
\* in the planner and the dashboard it does not become true again while
\* the component stays mounted.
C26_LoadingEnds ==
  /\ app.loading ~> ~app.loading
  /\ (loadData.pc = "awaiting") ~> ~planner.loading
  /\ (loadClientsData.pc \in { "getAllProfiles", "progress" })
       ~> ~admin.loading
  /\ [][ (View = "planner" /\ ~planner.loading /\ View' = "planner")
           => ~planner'.loading ]_vars
  /\ [][ (View = "admin" /\ ~admin.loading /\ View' = "admin")
           => ~admin'.loading ]_vars

\* C26 witness: the planner's load was rejected and the planner is shown
\* with loading false.
C26_Witness ==
  /\ View = "planner"
  /\ loadData.pc = "done"
  /\ loadData.rejected # ""
  /\ ~planner.loading

RemoteCall ==
  \/ \E what \in { "profile" } \cup Collections :
       \E a \in Answers(what, session) : LoadDataRead(what, a)
  \/ \E r \in refetches : \E a \in Answers(r.what, session) : RefetchRead(r, a)
  \/ \E t \in planner.tasks, fault \in { "" } \cup WriteErrors :
       ToggleTask(t, fault)
  \/ \E fault \in { "" } \cup WriteErrors : SaveVendor(fault)
  \/ \E v \in planner.vendors, fault \in { "" } \cup WriteErrors :
       PlannerDeleteVendor(v, fault)
  \/ \E fault \in { "" } \cup WriteErrors : SaveGuest(fault)
  \/ \E g \in planner.guests, fault \in { "" } \cup WriteErrors :
       PlannerDeleteGuest(g, fault)
  \/ \E fault \in { "" } \cup WriteErrors : PlannerHandleSignOut(fault)
  \/ \E fault \in { "" } \cup WriteErrors : AdminHandleSignOut(fault)
  \/ \E fault \in { "" } \cup ReadErrors : LoadClientsDataProfiles(fault)
  \/ \E i \in loadClientsData.pending, fault \in { "" } \cup ReadErrors :
       LoadClientsDataProgress(i, fault)

\* C10: whenever a remote call of the planner or the dashboard fails (the
\* initial load, sign-out, toggleTask, saveVendor, deleteVendor, saveGuest,
\* deleteGuest, a read started by a change notification), the component's
\* error is the failure's message afterwards.
C10_EveryFailureStored ==
  [][ (RemoteCall /\ lastError' # "") =>
        (IF View = "admin" THEN admin'.error ELSE planner'.error)
          = lastError' ]_vars

(***************************************************************************)
(* Properties of the backend (checked under SpecDb).                       *)
(***************************************************************************)
NamedPhases ==
  { "12+ Months Before", "8-12 Months Before", "4-8 Months Before",
    "2-4 Months Before", "1-2 Months Before", "1 Week Before" }

HasProfile(u) == \E p \in profiles : p.id = u

\* C2: inserting a new profile row seeds exactly 60 tasks owned by that
\* profile, exactly 10 in each of the six named phases and none in any
\* other phase, every one with completed = false.
C2_ProfileInsertSeedsSixtyTasks ==
  [][ \A u \in Users :
        (~HasProfile(u) /\ HasProfile(u)') =>
          LET seeded == { t \in tasks' : t.user_id = u }
          IN  /\ tasks' \ tasks = seeded
              /\ Cardinality(seeded) = 60
              /\ \A ph \in NamedPhases :
                   Cardinality({ t \in seeded : t.phase = ph }) = 10
              /\ \A t \in seeded :
                   t.phase \in NamedPhases /\ t.completed = FALSE ]_vars

\* C2 witness: a profile exists and its 60 seeded tasks are in the table.
C2_Witness ==
  \E p \in profiles :
    Cardinality({ t \in tasks : t.user_id = p.id /\ ~t.completed }) = 60

\* The identity's profile row has is_admin = true.
AdminFlag(u) == \E p \in profiles : p.id = u /\ p.is_admin = TRUE

\* The rows a step added to, removed from or changed in a table.
Touched(before, after) == (before \ after) \cup (after \ before)

OperatorStep == \E u \in Users : OperatorSetAdmin(u, TRUE)

C5_AdminFlagOnlyByOperator ==
  \A p \in profiles : p.is_admin = TRUE => p.id \in operatorSet

\* The rows seeded for profile u, each as << id, created_at >>: a second
\* batch would carry a later created_at.
SeededFor(rows, u) ==
  { << t.id, t.created_at >> : t \in { r \in rows : r.id[1] = u } }

\* C11: default tasks are seeded only by the insertion of a profile row,
\* never again for a profile that exists: whatever signups, profile
\* inserts and updates, sign-ins, sign-outs and data requests are made, no
\* profile gets a second batch of the 60 default tasks.
C11_SeededOncePerProfile ==
  /\ [](\A u \in Users :
          Cardinality(SeededFor(tasks, u)) \in { 0, Len(DefaultTasks) })
  /\ [][ \A u \in Users :
           SeededFor(tasks', u) # SeededFor(tasks, u) =>
             /\ ~HasProfile(u) /\ HasProfile(u)'
             /\ SeededFor(tasks, u) = {} ]_vars

\* C11 witness: a profile with its 60 seeded tasks exists and a second
\* insert of the same profile row has just been refused.
C11_Witness ==
  /\ lastError = PkViolation
  /\ \E u \in Users :
       /\ HasProfile(u)
       /\ Cardinality(SeededFor(tasks, u)) = Len(DefaultTasks)

\* C20: once loading is false, an identity whose profile row has is_admin
\* = true is never shown the planner, under every interleaving of
\* checkUser, the auth listener and the profile loads, no load failing.
C20_AdminNeverShownPlanner ==
  (app.user \in Users /\ AdminFlag(app.user)) => View # "planner"

\* C21: in every state of App the held profile is null or the profile
\* of the held user: without a user no profile is held, and a profile
\* loaded for one identity is never held while another is the user.
C21_ProfileBelongsToUser ==
  /\ app.user = Null => app.profile = NoProfile
  /\ app.profile # NoProfile => app.profile[1].id = app.user

\* C13: after any sequence of signUp calls, every identity that signUp
\* created has exactly one profile row whose id is the identity's id, and
\* no identity has two profile rows.
C13_OneProfilePerIdentity ==
  \A u \in authUsers : Cardinality({ p \in profiles : p.id = u }) = 1

AddStep ==
  \/ AddTask(CustomTaskName, OtherPhase)
  \/ \E v \in VendorPayloads : AddVendor(v)
  \/ \E g \in GuestPayloads : AddGuest(g)

\* C6: every row of tasks, vendors and guests has the user_id of the
\* identity whose request created it, whatever inserts and updates (also
\* ones carrying a user_id) the clients send; addTask, addVendor and
\* addGuest add only rows whose user_id is the current identity, and with
\* no current identity they throw 'Not authenticated' and insert nothing.
C6_OwnerIsCreator ==
  /\ [](\A r \in tasks \cup vendors \cup guests : r.user_id = CreatorOf(r))
  /\ [][ AddStep =>
           /\ \A r \in (tasks' \ tasks) \cup (vendors' \ vendors)
                         \cup (guests' \ guests) : r.user_id = session
           /\ session = NoUser =>
                /\ lastError' = NotAuthenticated
                /\ UNCHANGED << tasks, vendors, guests >> ]_vars

\* C6 witness: a vendor added by the signed-in identity is in the table,
\* and the last request, which carried another identity's user_id, was
\* refused.
C6_Witness ==
  /\ \E v \in vendors : v.user_id = session /\ CreatorOf(v) = session
  /\ lastError = RlsViolation

(***************************************************************************)
(* Properties of the pure computations (checked under SpecPure).           *)
(***************************************************************************)
\* The completed and total counts of the input, counted over its indexes.
NumCompleted == Cardinality({ i \in DOMAIN input : input[i].completed })
NumTotal == Cardinality(DOMAIN input)

RoundHalfUp(c, n) == (200 * c + n) \div (2 * n)

\* C1: for n tasks of which c are completed, the percentage of
\* updateProgress and of getProfileProgress is 0 when n = 0, 100 when
\* c = n > 0, and otherwise 100*c/n rounded to the nearest integer with
\* halves rounded up, floor((200*c + n) / (2*n)).
C1_ProgressRoundsHalfUp ==
  LET expected == IF NumTotal = 0 THEN 0
                  ELSE IF NumCompleted = NumTotal THEN 100
                  ELSE RoundHalfUp(NumCompleted, NumTotal)
  IN  /\ fn = "updateProgress" => output = expected
      /\ fn = "getProfileProgress" => output.percentage = expected

\* The six phase names in the order the checklist shows them.
C3_PhaseOrder ==
  << "12+ Months Before", "8-12 Months Before", "4-8 Months Before",
     "2-4 Months Before", "1-2 Months Before", "1 Week Before" >>

\* C3: getTasksByPhase returns exactly six groups in the fixed phase order;
\* each group holds exactly the tasks of the input whose phase equals the
\* group's phase, once each and in the input's relative order; a phase
\* without a task is present with an empty list.
C3_GroupingExactAndOrdered ==
  fn = "getTasksByPhase" =>
    /\ Len(output) = 6
    /\ \A g \in 1..6 :
         LET grp == output[g].tasks
         IN  /\ output[g].phase = C3_PhaseOrder[g]
             /\ \A k \in 1..Len(grp) :
                  /\ grp[k].id \in DOMAIN input
                  /\ grp[k] = input[grp[k].id]
                  /\ grp[k].phase = C3_PhaseOrder[g]
             /\ \A j, k \in 1..Len(grp) : j < k => grp[j].id < grp[k].id
             /\ \A i \in DOMAIN input :
                  input[i].phase = C3_PhaseOrder[g] =>
                    \E k \in 1..Len(grp) : grp[k].id = i

\* C3 witness: a grouping with a group of two tasks that are not adjacent
\* in the input, an empty group, and a task of no listed phase left out.
C3_Witness ==
  /\ fn = "getTasksByPhase"
  /\ Len(input) = 3
  /\ input[1].phase = "1 Week Before"
  /\ input[2].phase = OtherPhase
  /\ input[3].phase = "1 Week Before"
  /\ Len(output[6].tasks) = 2
  /\ output[1].tasks = << >>

\* C22: for every total n >= 1 and completed count c <= n the percentage
\* of getProfileProgress is 100 only if c = n and 0 only if c = 0, so the
\* dashboard calls a client 'Completed' only when all its tasks are
\* completed and 'Not Started' only when none is.
C22_ExtremesOnlyAtExtremes ==
  (fn = "getProfileProgress" /\ output.total >= 1) =>
    /\ output.percentage = 100 => output.completed = output.total
    /\ output.percentage = 0 => output.completed = 0

\* C25: every task of the planner's list is in exactly one of the six
\* phase groups, so the sizes of the groups add up to the number of tasks
\* (and the per-phase counts to those of the overall progress), whatever
\* task rows the backend holds.
C25_GroupsPartitionTasks ==
  fn = "getTasksByPhase" =>
    /\ \A i \in DOMAIN input :
         Cardinality({ g \in 1..Len(output) :
                         \E k \in 1..Len(output[g].tasks) :
                           output[g].tasks[k].id = i }) = 1
    /\ Len(output[1].tasks) + Len(output[2].tasks) + Len(output[3].tasks)
         + Len(output[4].tasks) + Len(output[5].tasks)
         + Len(output[6].tasks) = Len(input)

\* The percentage of client i of the dashboard's list.
PercentageOf(i) == input[i].progress.percentage

\* C15: over any list of clients, totalClients is the length of the list,
\* activeClients the number of clients with percentage > 0,
\* completedClients the number with percentage = 100, averageProgress the
\* mean of the percentages rounded to the nearest integer with halves
\* rounded up, and 0 for the empty list; so completedClients <=
\* activeClients <= totalClients and 0 <= averageProgress <= 100.
C15_OverallStats ==
  fn = "getOverallStats" =>
    LET n   == Len(input)
        sum == SumOfPercentages(input)
    IN  /\ output.totalClients = n
        /\ output.activeClients
             = Cardinality({ i \in 1..n : PercentageOf(i) > 0 })
        /\ output.completedClients
             = Cardinality({ i \in 1..n : PercentageOf(i) = 100 })
        /\ output.averageProgress
             = IF n = 0 THEN 0 ELSE (2 * sum + n) \div (2 * n)
        /\ output.completedClients <= output.activeClients
        /\ output.activeClients <= output.totalClients
        /\ output.averageProgress \in 0..100

\* C15 witness: the summary of two clients whose mean is a half (24 and
\* 25), shown as 25, one of three clients at 0, 50 and 100 being
\* reachable likewise.
C15_Witness ==
  /\ fn = "getOverallStats"
  /\ Len(input) = 2
  /\ SumOfPercentages(input) = 49
  /\ output.averageProgress = 25
  /\ output.activeClients = 2
  /\ output.completedClients = 0

\* The tiers from worst to best.
TierRank(colour) ==
  CASE colour = "bg-red-500" -> 1
    [] colour = "bg-orange-500" -> 2
    [] colour = "bg-yellow-500" -> 3
    [] colour = "bg-green-500" -> 4

\* C16: every percentage p in 0..100 gets exactly one of four tiers, green
\* when p >= 80, yellow when 50 <= p <= 79, orange when 25 <= p <= 49 and
\* red when p <= 24, and of two percentages the larger never gets the
\* worse tier.
C16_ProgressColorTiers ==
  fn = "getProgressColor" =>
    /\ Len(output) = Len(input)
    /\ \A i \in 1..Len(input) :
         LET p == PercentageOf(i)
         IN  /\ output[i] \in { "bg-green-500", "bg-yellow-500",
                                "bg-orange-500", "bg-red-500" }
             /\ output[i] = "bg-green-500" <=> p >= 80
             /\ output[i] = "bg-yellow-500" <=> (50 <= p /\ p <= 79)
             /\ output[i] = "bg-orange-500" <=> (25 <= p /\ p <= 49)
             /\ output[i] = "bg-red-500" <=> p <= 24
    /\ \A i, j \in 1..Len(input) :
         PercentageOf(i) <= PercentageOf(j) =>
           TierRank(output[i]) <= TierRank(output[j])

\* C16 witness: three clients at 49, 50 and 79 are shown orange, yellow
\* and yellow.
C16_Witness ==
  /\ fn = "getProgressColor"
  /\ Len(input) = 3
  /\ PercentageOf(1) = 49 /\ PercentageOf(2) = 50 /\ PercentageOf(3) = 79
  /\ output = << "bg-orange-500", "bg-yellow-500", "bg-yellow-500" >>

\* The guests of the list whose rsvp_status is status.
WithStatus(status) ==
  { i \in 1..Len(input) : input[i].rsvp_status = status }

\* C17: over any guest list the total is the number of guests, the
\* attending, declined and pending counts are the numbers of guests whose
\* rsvp_status is exactly 'attending', 'declined' and 'pending', and when
\* every status is one of the three the counts add up to the total.
C17_RsvpCounts ==
  fn = "GuestStatistics" =>
    /\ output.total = Len(input)
    /\ output.attending = Cardinality(WithStatus("attending"))
    /\ output.declined = Cardinality(WithStatus("declined"))
    /\ output.pending = Cardinality(WithStatus("pending"))
    /\ (\A i \in 1..Len(input) :
          input[i].rsvp_status \in { "attending", "declined", "pending" })
         => output.attending + output.declined + output.pending
              = output.total

\* C17 witness: two guests attending, one who declined and one pending
\* are counted 2, 1, 1 of 4.
C17_Witness ==
  /\ fn = "GuestStatistics"
  /\ Len(input) = 4
  /\ output = [total |-> 4, attending |-> 2, declined |-> 1, pending |-> 1]

====
